---- MODULE Spec2Model ----
(***************************************************************************)
(* A model of the Plan-Execute engine (internal/core: agent.go, plan.go),  *)
(* of the tool registry (internal/tool/registry.go) and of the SSE event   *)
(* broker (package sse).                                                    *)
(*                                                                         *)
(* Spec        one run of Agent.Execute against nondeterministic backends. *)
(* SpecBroker  the broker loop, its delivery goroutines, subscribers and a *)
(*             publisher that calls Broadcast.                              *)
(***************************************************************************)
EXTENDS Integers, Sequences, FiniteSets, TLC

\* ------------------------------------------------------------------ bounds

\* Largest AgentConfig.MaxIterations a run is configured with.
MaxIter == 2

\* ------------------------------------------------------------------- texts
\* A Go string is a sequence of one-character strings.

Space == " "

\* strings.ToLower on the alphabet the model uses.
ToLowerChar(c) ==
    CASE c = "S" -> "s"
      [] c = "C" -> "c"
      [] OTHER -> c

ToLower(t) == [i \in 1..Len(t) |-> ToLowerChar(t[i])]

\* strings.Fields: the maximal runs of non-space characters, in order.
RECURSIVE FieldsFrom(_, _, _)
FieldsFrom(t, i, cur) ==
    IF i > Len(t)
    THEN IF cur = <<>> THEN <<>> ELSE <<cur>>
    ELSE IF t[i] = Space
         THEN IF cur = <<>> THEN FieldsFrom(t, i + 1, <<>>)
                            ELSE <<cur>> \o FieldsFrom(t, i + 1, <<>>)
         ELSE FieldsFrom(t, i + 1, Append(cur, t[i]))

Fields(t) == FieldsFrom(t, 1, <<>>)

\* strings.Contains: w occurs in t as a contiguous substring.
Contains(t, w) ==
    \E i \in 0..(Len(t) - Len(w)) : SubSeq(t, i + 1, i + Len(w)) = w

TxtEmpty == <<>>
TxtSumIt == <<"s", "u", "m", " ", "i", "t">>
TxtSum   == <<"s", "u", "m">>
TxtCat   == <<"c", "a", "t">>
TxtSumUp == <<"S", "u", "m", " ", "u", "p">>
TxtX     == <<"x">>
TxtNone  == <<"n", "o", "n", "e">>

\* ------------------------------------------------------------------ errors
\* An error value is its cause chain, outermost wrapper first; nil is <<>>.
\* Each link is the message of one fmt.Errorf, with the step number the
\* message is formatted with (0 when the message carries none).

NoError == <<>>
E(msg, step) == <<[msg |-> msg, step |-> step]>>
Wrap(msg, err) == E(msg, 0) \o err
IsError(err) == err # NoError
Msgs(err) == { err[i].msg : i \in 1..Len(err) }

\* -------------------------------------------------------------- plan model

PStr(t) == [t |-> "string", v |-> t]
PNum    == [t |-> "number", v |-> <<>>]

IsStr(p, key) == key \in DOMAIN p /\ p[key].t = "string"

ReasonStep(param, cont) ==
    [Action |-> "reason", Parameters |-> [prompt |-> param], ShouldContinue |-> cont]
ToolStep(name, input, cont) ==
    [Action |-> "search_tool", Parameters |-> [tool_name |-> name, input |-> input],
     ShouldContinue |-> cont]
RAGStep(query, cont) ==
    [Action |-> "rag_search", Parameters |-> [query |-> query], ShouldContinue |-> cont]

ToolCalc  == <<"c", "a", "l", "c">>
ToolGhost == <<"g", "h", "o", "s", "t">>

\* The steps a model answer is built from.
Steps ==
    { ReasonStep(PStr(TxtSum), c) : c \in BOOLEAN }
    \cup { ToolStep(PStr(ToolCalc), PStr(TxtSum), c) : c \in BOOLEAN }
    \cup { ToolStep(PStr(ToolGhost), PStr(TxtSum), FALSE),
           ToolStep(PStr(ToolCalc), PNum, FALSE),
           RAGStep(PStr(TxtSum), FALSE),
           [Action |-> "reason", Parameters |-> [top_k |-> PNum], ShouldContinue |-> FALSE],
           [Action |-> "fly", Parameters |-> [top_k |-> PNum], ShouldContinue |-> FALSE] }

\* The step lists of a model answer: none, one step, or two.
StepSeqs == {<<>>} \cup { <<s>> : s \in Steps } \cup { <<s, t>> : s \in Steps, t \in Steps }

Thoughts == {TxtEmpty, TxtSumUp, TxtCat, TxtX}

Plans == { [Thought |-> th, Steps |-> ss] : th \in Thoughts, ss \in StepSeqs }

NoPlan == [Thought |-> TxtEmpty, Steps |-> <<>>]

\* A nil parameter map; every non-nil map of the model has at least one key.
NilMap == <<>>

\* plan.go validatePlan: the first violated rule, or nil.
RECURSIVE validateSteps(_, _)
validateSteps(steps, i) ==
    IF i > Len(steps) THEN NoError
    ELSE LET step == steps[i]
             p == step.Parameters
         IN  IF step.Action = "" THEN E("step lacks action", i)
             ELSE IF p = NilMap THEN E("step lacks parameters", i)
             ELSE IF step.Action = "search_tool" /\ "tool_name" \notin DOMAIN p
                 THEN E("tool step lacks tool_name", 0)
             ELSE IF step.Action = "search_tool" /\ "input" \notin DOMAIN p
                 THEN E("tool step lacks input", 0)
             ELSE IF step.Action = "rag_search" /\ "query" \notin DOMAIN p
                 THEN E("rag step lacks query", 0)
             ELSE IF step.Action = "reason" /\ "prompt" \notin DOMAIN p
                 THEN E("reason step lacks prompt", 0)
             ELSE IF step.Action \notin {"search_tool", "rag_search", "reason"}
                 THEN E("unknown action", 0)
             ELSE validateSteps(steps, i + 1)

validatePlan(pl) ==
    IF pl.Thought = TxtEmpty THEN E("plan lacks thought", 0)
    ELSE IF Len(pl.Steps) = 0 THEN E("plan lacks steps", 0)
    ELSE validateSteps(pl.Steps, 1)

\* ---------------------------------------------------------------- raw text
\* A model response is a sequence of tokens: a code fence with the json tag
\* (fence_json) or without it (fence), a blank line (blank, two line breaks),
\* a line break (nl), prose, or a JSON document. A document is one token; the
\* text of a document whose thought holds a fence marker holds the marker too,
\* and a cut through a document leaves a fragment of it.

FenceJSON == [k |-> "fence_json", doc |-> NoPlan]
Fence     == [k |-> "fence", doc |-> NoPlan]
Blank     == [k |-> "blank", doc |-> NoPlan]
NL        == [k |-> "nl", doc |-> NoPlan]
Prose     == [k |-> "prose", doc |-> NoPlan]
Doc(pl) == [k |-> "doc", doc |-> pl]
Fragment  == [k |-> "fragment", doc |-> NoPlan]

\* The fence marker as it is written inside a text (three backquotes, written
\* as one character of the model's alphabet) and the tag that may follow it.
TxtFence == <<"'''">>
TxtTag   == <<"j", "s", "o", "n">>

\* The text of a document holds the marker: the thought of its plan does.
DocHolds(pl, marker) ==
    \/ marker = "fence" /\ Contains(pl.Thought, TxtFence)
    \/ marker = "fence_json" /\ Contains(pl.Thought, TxtFence \o TxtTag)

\* json.Unmarshal: a text decodes iff it is one document with nothing but
\* white space around it.
Unmarshal(text) ==
    LET docs == { i \in 1..Len(text) : text[i].k = "doc" }
    IN  IF Cardinality(docs) = 1
           /\ \A i \in 1..Len(text) : text[i].k \in {"doc", "nl", "blank"}
        THEN [ok |-> TRUE, plan |-> text[CHOOSE i \in docs : TRUE].doc]
        ELSE [ok |-> FALSE, plan |-> NoPlan]

\* findSubstring for a marker: the index of the first token at which the
\* marker matches, 0 when there is none ("fence" also matches at "fence_json").
Matches(tok, marker) ==
    \/ tok.k = marker
    \/ marker = "fence" /\ tok.k = "fence_json"
    \/ tok.k = "doc" /\ DocHolds(tok.doc, marker)

findSubstring(text, from, marker) ==
    LET hits == { i \in from..Len(text) : Matches(text[i], marker) }
    IN  IF hits = {} THEN 0 ELSE CHOOSE i \in hits : \A j \in hits : i <= j

\* response[start:end], in tokens: the tokens from start up to end, with what a
\* cut through a document leaves of it at either side.
Cut(response, start, end) ==
    (IF response[start - 1].k = "doc" THEN <<Fragment>> ELSE <<>>)
    \o SubSeq(response, start, end - 1)
    \o (IF end <= Len(response) /\ response[end].k = "doc" THEN <<Fragment>> ELSE <<>>)

\* extractJSONFromResponse: the interior of the first fence (the first json
\* fence when there is one), up to the next fence, else up to the next blank
\* line, else to the end; <<>> when there is no fence or the interior is empty.
\* A marker found inside a document cuts the document: the rest of it opens
\* the interior, or the part before the marker closes it.
extractJSONFromResponse(response) ==
    LET j == findSubstring(response, 1, "fence_json")
        f == findSubstring(response, 1, "fence")
        start == IF j # 0 THEN j + 1 ELSE IF f # 0 THEN f + 1 ELSE 0
        e1 == IF start = 0 THEN 0 ELSE findSubstring(response, start, "fence")
        e2 == IF start = 0 THEN 0 ELSE findSubstring(response, start, "blank")
        end == IF e1 # 0 THEN e1 ELSE IF e2 # 0 THEN e2 ELSE Len(response) + 1
    IN  IF start # 0 THEN Cut(response, start, end) ELSE <<>>

\* ParseExecutionPlan: [plan, err].
ParseExecutionPlan(response) ==
    LET direct == Unmarshal(response)
        jsonStr == extractJSONFromResponse(response)
        fenced == Unmarshal(jsonStr)
        decoded == IF direct.ok THEN direct ELSE fenced
    IN  IF ~direct.ok /\ jsonStr = <<>>
            THEN [plan |-> NoPlan, err |-> E("cannot extract JSON", 0)]
        ELSE IF ~direct.ok /\ ~fenced.ok
            THEN [plan |-> NoPlan, err |-> E("cannot decode plan JSON", 0)]
        ELSE IF IsError(validatePlan(decoded.plan))
            THEN [plan |-> NoPlan,
                  err |-> Wrap("plan validation failed", validatePlan(decoded.plan))]
        ELSE [plan |-> decoded.plan, err |-> NoError]


\* ----------------------------------------------------------- relevance gate

\* Agent.isPlanRelevant: matchCount / len(words) >= 0.3 in float64; 0/0 is NaN
\* and NaN >= 0.3 is false.
isPlanRelevant(pl, q) ==
    LET thoughtLower == ToLower(pl.Thought)
        words == Fields(ToLower(q))
        matchCount == Cardinality({ i \in 1..Len(words) :
                          Len(words[i]) > 2 /\ Contains(thoughtLower, words[i]) })
    IN  Len(words) > 0 /\ 10 * matchCount >= 3 * Len(words)

\* ------------------------------------------------------------ tool registry

\* ToolRegistry.ListTools: the names of the tool instances (factories are not
\* listed).
ListTools(tools) == tools

\* ToolRegistry.CreateTool: the instance of a name, created from its factory
\* when there is none yet.
CreateTool(tools, factories, name) ==
    IF name \in tools THEN [ok |-> TRUE, tools |-> tools]
    ELSE IF name \in factories THEN [ok |-> TRUE, tools |-> tools \cup {name}]
    ELSE [ok |-> FALSE, tools |-> tools]

\* Agent.validatePlan: the engine's per-step checks, then the relevance gate.
RECURSIVE agentValidateSteps(_, _, _, _, _)
agentValidateSteps(steps, i, toolManager, ragEngine, tools) ==
    IF i > Len(steps) THEN NoError
    ELSE LET step == steps[i]
             p == step.Parameters
         IN  IF step.Action = "search_tool" /\ ~toolManager
                 THEN E("tool manager not configured", i)
             ELSE IF step.Action = "search_tool"
                     /\ (~IsStr(p, "tool_name") \/ p["tool_name"].v = TxtEmpty)
                 THEN E("tool step lacks tool_name", i)
             ELSE IF step.Action = "search_tool" /\ p["tool_name"].v \notin ListTools(tools)
                 THEN E("tool does not exist", i)
             ELSE IF step.Action = "rag_search" /\ ~ragEngine
                 THEN E("rag engine not configured", i)
             ELSE IF step.Action = "rag_search"
                     /\ (~IsStr(p, "query") \/ p["query"].v = TxtEmpty)
                 THEN E("rag step lacks query", i)
             ELSE IF step.Action = "reason" /\ ~IsStr(p, "prompt")
                 THEN E("reason step lacks prompt", i)
             ELSE agentValidateSteps(steps, i + 1, toolManager, ragEngine, tools)

AgentValidatePlan(pl, q, toolManager, ragEngine, tools) ==
    IF Len(pl.Steps) = 0 THEN E("plan has no step", 0)
    ELSE IF IsError(agentValidateSteps(pl.Steps, 1, toolManager, ragEngine, tools))
        THEN agentValidateSteps(pl.Steps, 1, toolManager, ragEngine, tools)
    ELSE IF ~isPlanRelevant(pl, q) THEN E("plan not relevant", 0)
    ELSE NoError


\* ----------------------------------------------------------------- backends

\* The text each backend answers with when it succeeds: a tool, the model
\* (to a reasoning prompt), and the best hit of the retrieval store.
ToolOutput   == TxtCat
ModelOutput  == TxtSum
SearchOutput == TxtSum

\* One backend call and its outcome.
Call(backend, phase, arg, ok, out) ==
    [backend |-> backend, phase |-> phase, arg |-> arg, ok |-> ok, out |-> out]

\* The error of a call made with a context whose deadline has passed.
DeadlineExceeded == E("context deadline exceeded", 0)

\* A failed and a successful answer of a backend.
Failure(err) == [ok |-> FALSE, out |-> TxtEmpty, err |-> err]
Success(out) == [ok |-> TRUE, out |-> out, err |-> NoError]

\* What one backend call can answer: an error, or its text (for a search:
\* the content of the best hit, TxtEmpty for an empty result set).
Replies(backend) ==
    CASE backend = "tool"  -> {Failure(E("tool error", 0)), Success(ToolOutput)}
      [] backend = "model" -> {Failure(E("generation error", 0)), Success(ModelOutput)}
      [] backend = "rag"   -> {Failure(E("backend error", 0)), Success(TxtEmpty),
                               Success(SearchOutput)}

\* What a backend call answers under the run's context. The model and the
\* retrieval engine pass the context to their requests, which fail once the
\* deadline has passed; the registered tool (a calculator) does not look at
\* its context.
RepliesAt(backend, late) ==
    IF late /\ backend # "tool" THEN {Failure(DeadlineExceeded)} ELSE Replies(backend)

\* formatRAGResults: the not-found text for an empty result set, else a
\* header followed by the hits.
Header == <<"#", " ">>
formatRAGResults(results) ==
    IF results = TxtEmpty THEN TxtNone ELSE Header \o results

\* Manager.ExecuteTool for one reply of the tool: [ok, out, err, tools].
ExecuteTool(tools, factories, name, reply) ==
    LET c == CreateTool(tools, factories, name)
    IN  IF ~c.ok
            THEN [ok |-> FALSE, out |-> TxtEmpty, tools |-> tools,
                  err |-> Wrap("get tool failed", E("tool factory not found", 0))]
        ELSE IF ~reply.ok
            THEN [ok |-> FALSE, out |-> TxtEmpty, tools |-> c.tools,
                  err |-> Wrap("tool execution failed", reply.err)]
        ELSE [ok |-> TRUE, out |-> reply.out, tools |-> c.tools, err |-> NoError]

\* The outcome of a step or of a recovery: kind is "ok", "err" or "panic".
Outcome(kind, res, err, cs, tools) ==
    [kind |-> kind, result |-> res, err |-> err, calls |-> cs, tools |-> tools]

\* Agent.executeToolStep.
executeToolStep(ag, tools, factories, step, reply) ==
    LET p == step.Parameters
    IN  IF ~ag.toolManager
            THEN Outcome("err", TxtEmpty, E("tool manager not configured", 0), <<>>, tools)
        ELSE IF ~IsStr(p, "tool_name") \/ ~IsStr(p, "input")
            THEN Outcome("panic", TxtEmpty, NoError, <<>>, tools)
        ELSE LET r == ExecuteTool(tools, factories, p["tool_name"].v, reply)
                 c == <<Call("tool", "step", p["input"].v, r.ok, r.out)>>
             IN  IF r.ok THEN Outcome("ok", r.out, NoError, c, r.tools)
                 ELSE Outcome("err", TxtEmpty, Wrap("tool call failed", r.err), c, r.tools)

\* Agent.executeRAGStep.
executeRAGStep(ag, tools, step, reply) ==
    LET p == step.Parameters
    IN  IF ~ag.ragEngine
            THEN Outcome("err", TxtEmpty, E("rag engine not configured", 0), <<>>, tools)
        ELSE IF ~IsStr(p, "query")
            THEN Outcome("panic", TxtEmpty, NoError, <<>>, tools)
        ELSE LET c == <<Call("rag", "step", p["query"].v, reply.ok, reply.out)>>
             IN  IF reply.ok THEN Outcome("ok", formatRAGResults(reply.out), NoError, c, tools)
                 ELSE Outcome("err", TxtEmpty, Wrap("rag search failed", reply.err),
                              c, tools)

\* Agent.executeReasonStep.
executeReasonStep(tools, step, reply) ==
    LET p == step.Parameters
    IN  IF ~IsStr(p, "prompt")
            THEN Outcome("panic", TxtEmpty, NoError, <<>>, tools)
        ELSE LET c == <<Call("model", "step", p["prompt"].v, reply.ok, reply.out)>>
             IN  IF reply.ok THEN Outcome("ok", reply.out, NoError, c, tools)
                 ELSE Outcome("err", TxtEmpty, Wrap("reasoning failed", reply.err),
                              c, tools)

\* Agent.executeStep: dispatch on the action.
executeStep(ag, tools, factories, step, reply) ==
    CASE step.Action = "search_tool" -> executeToolStep(ag, tools, factories, step, reply)
      [] step.Action = "rag_search"  -> executeRAGStep(ag, tools, step, reply)
      [] step.Action = "reason"      -> executeReasonStep(tools, step, reply)
      [] OTHER -> Outcome("err", TxtEmpty, E("unknown action", 0), <<>>, tools)

\* The replies a step's backend can give.
StepReplies(step, late) ==
    CASE step.Action = "search_tool" -> RepliesAt("tool", late)
      [] step.Action = "rag_search"  -> RepliesAt("rag", late)
      [] OTHER -> RepliesAt("model", late)

\* ----------------------------------------------------------------- recovery

SuffixPrev == <<" ", "p", "r", "e", "v">>
SuffixHist == <<" ", "h", "i", "s", "t">>

\* A mutant of generateAlternativeInputs: the variants come before the
\* original input.
generateAlternativeInputs_variantsFirst(step, history) ==
    IF IsStr(step.Parameters, "input")
    THEN (IF Len(history) > 0
          THEN <<step.Parameters["input"].v \o SuffixPrev,
                 step.Parameters["input"].v \o SuffixHist>>
          ELSE <<>>)
         \o <<step.Parameters["input"].v>>
    ELSE <<>>

\* Agent.generateAlternativeInputs.
generateAlternativeInputs(step, history) ==
    LET p == step.Parameters
    IN  IF IsStr(p, "input")
        THEN <<p["input"].v>>
             \o (IF Len(history) > 0
                 THEN <<p["input"].v \o SuffixPrev, p["input"].v \o SuffixHist>>
                 ELSE <<>>)
        ELSE <<>>

\* Agent.generateAlternativeQueries.
generateAlternativeQueries(q, history) ==
    <<q>>
    \o (IF Len(q) > 10 THEN <<SubSeq(q, 1, Len(q) - 5)>> ELSE <<>>)
    \o (IF Len(history) > 0 /\ Len(Fields(history[Len(history)])) > 0
        THEN <<q \o <<Space>> \o Fields(history[Len(history)])[1]>>
        ELSE <<>>)

\* The loop of recoverToolError: the alternatives in order, up to the first
\* call that succeeds.
RECURSIVE toolLoop(_, _, _, _, _, _, _)
toolLoop(tools, factories, name, alts, replies, j, cs) ==
    IF j > Len(alts)
    THEN Outcome("err", TxtEmpty, E("all alternatives failed", 0), cs, tools)
    ELSE LET r == ExecuteTool(tools, factories, name, replies[j])
             c == Append(cs, Call("tool", "recover", alts[j], r.ok, r.out))
         IN  IF r.ok THEN Outcome("ok", r.out, NoError, c, r.tools)
             ELSE toolLoop(r.tools, factories, name, alts, replies, j + 1, c)

\* Agent.recoverToolError.
recoverToolError(ag, tools, factories, step, history, replies) ==
    IF ~ag.toolManager
        THEN Outcome("err", TxtEmpty, E("tool manager not configured, cannot recover", 0),
                     <<>>, tools)
    ELSE IF ~IsStr(step.Parameters, "tool_name")
        THEN Outcome("panic", TxtEmpty, NoError, <<>>, tools)
    ELSE toolLoop(tools, factories, step.Parameters["tool_name"].v,
                  generateAlternativeInputs(step, history), replies, 1, <<>>)

\* A mutant of searchAccepted: any search without error is accepted.
searchAccepted_anyResult(reply) == reply.ok

\* recoverRAGError: err == nil && len(results) > 0.
searchAccepted(reply) == reply.ok /\ reply.out # TxtEmpty

\* The loop of recoverRAGError: the first search that returns without error
\* and with a non-empty result set.
RECURSIVE ragLoop(_, _, _, _, _)
ragLoop(tools, alts, replies, j, cs) ==
    IF j > Len(alts)
    THEN Outcome("err", TxtEmpty, E("all alternative queries failed", 0), cs, tools)
    ELSE LET c == Append(cs, Call("rag", "recover", alts[j], replies[j].ok, replies[j].out))
         IN  IF searchAccepted(replies[j])
             THEN Outcome("ok", formatRAGResults(replies[j].out), NoError, c, tools)
             ELSE ragLoop(tools, alts, replies, j + 1, c)

\* Agent.recoverRAGError.
recoverRAGError(ag, tools, step, history, replies) ==
    IF ~ag.ragEngine
        THEN Outcome("err", TxtEmpty, E("rag engine not configured, cannot recover", 0),
                     <<>>, tools)
    ELSE IF ~IsStr(step.Parameters, "query")
        THEN Outcome("panic", TxtEmpty, NoError, <<>>, tools)
    ELSE ragLoop(tools, generateAlternativeQueries(step.Parameters["query"].v, history),
                 replies, 1, <<>>)

\* Agent.recoverReasonError: one model call with the original prompt and the
\* history.
recoverReasonError(tools, step, history, replies) ==
    IF ~IsStr(step.Parameters, "prompt")
        THEN Outcome("panic", TxtEmpty, NoError, <<>>, tools)
    ELSE LET c == <<Call("model", "recover", step.Parameters["prompt"].v,
                         replies[1].ok, replies[1].out)>>
         IN  IF replies[1].ok THEN Outcome("ok", replies[1].out, NoError, c, tools)
             ELSE Outcome("err", TxtEmpty,
                          Wrap("recovery reasoning failed", replies[1].err), c, tools)

\* Agent.defaultRecovery: one model call with the error message and the
\* history.
defaultRecovery(tools, replies) ==
    LET c == <<Call("model", "recover", TxtEmpty, replies[1].ok, replies[1].out)>>
    IN  IF replies[1].ok THEN Outcome("ok", replies[1].out, NoError, c, tools)
        ELSE Outcome("err", TxtEmpty,
                     Wrap("default recovery failed", replies[1].err), c, tools)

\* The strategy recoverFromError picks: by the step's action and the text of
\* the error.
strategyOf(step, err) ==
    IF step.Action = "search_tool" /\ "tool call failed" \in Msgs(err) THEN "tool"
    ELSE IF step.Action = "rag_search" /\ "rag search failed" \in Msgs(err) THEN "rag"
    ELSE IF step.Action = "reason" /\ "reasoning failed" \in Msgs(err) THEN "reason"
    ELSE "default"

\* A mutant of recoverFromError: a tool strategy that failed is followed by
\* the default strategy.
recoverFromError_fallsBack(ag, tools, factories, step, err, history, replies) ==
    IF strategyOf(step, err) = "tool"
    THEN IF recoverToolError(ag, tools, factories, step, history, replies).kind = "err"
         THEN Outcome("ok", ModelOutput, NoError,
                      Append(recoverToolError(ag, tools, factories, step, history, replies).calls,
                             Call("model", "recover", TxtEmpty, TRUE, ModelOutput)),
                      tools)
         ELSE recoverToolError(ag, tools, factories, step, history, replies)
    ELSE IF strategyOf(step, err) = "rag"
        THEN recoverRAGError(ag, tools, step, history, replies)
    ELSE IF strategyOf(step, err) = "reason"
        THEN recoverReasonError(tools, step, history, replies)
    ELSE defaultRecovery(tools, replies)

\* Agent.recoverFromError.
recoverFromError(ag, tools, factories, step, err, history, replies) ==
    CASE strategyOf(step, err) = "tool" ->
             recoverToolError(ag, tools, factories, step, history, replies)
      [] strategyOf(step, err) = "rag" -> recoverRAGError(ag, tools, step, history, replies)
      [] strategyOf(step, err) = "reason" -> recoverReasonError(tools, step, history, replies)
      [] OTHER -> defaultRecovery(tools, replies)

\* The number of backend calls the strategy can make, and what each can
\* answer.
recoveryCalls(step, err, history) ==
    CASE strategyOf(step, err) = "tool" -> Len(generateAlternativeInputs(step, history))
      [] strategyOf(step, err) = "rag" ->
             IF IsStr(step.Parameters, "query")
             THEN Len(generateAlternativeQueries(step.Parameters["query"].v, history))
             ELSE 0
      [] OTHER -> 1

RecoveryReplies(step, err, history, late) ==
    [1..recoveryCalls(step, err, history) ->
        CASE strategyOf(step, err) = "tool" -> RepliesAt("tool", late)
          [] strategyOf(step, err) = "rag"  -> RepliesAt("rag", late)
          [] OTHER -> RepliesAt("model", late)]

\* ------------------------------------------------------------ the engine run

VARIABLES
    agent,            \* the Agent: which backends are configured, MaxIterations
    query,            \* the goal passed to Execute
    registry,         \* the tool registry: instances (tools) and factories
    pc,               \* where the run is
    iteration,        \* thinkExecuteLoop: iteration
    currentQuery,     \* thinkExecuteLoop: currentQuery
    plan,             \* the plan of the current iteration
    stepIdx,          \* execute: the number of the current step (i+1)
    executionHistory, \* execute: executionHistory
    result,           \* execute: result
    shouldContinue,   \* execute: shouldContinue
    stepErr,          \* execute: the error of the failed step under recovery
    published,        \* the events sendEvent was called with, in order
    calls,            \* the backend calls of the current iteration, in order
    ret,              \* what Execute returned
    expired           \* the deadline of the run's context has passed

agentVars == <<agent, query, registry, pc, iteration, currentQuery, plan, stepIdx,
               executionHistory, result, shouldContinue, stepErr, published, calls, ret,
               expired>>

\* ------------------------------------------------------------ the SSE broker

\* The Broadcast calls made on the broker.
MaxEvents == 2

\* The capacity of a client's events channel (100 in NewClient), scaled down.
ClientQueueCap == 1

\* The capacity of the broker's events channel (1000 in NewBroker), scaled down.
BrokerQueueCap == 1

\* The capacity of the register channel.
RegisterCap == 10

\* The capacity of the unregister channel (10 in NewBroker), scaled down: one
\* ended subscription fills it.
UnregisterCap == 2

\* The client ids Subscribe is called with.
ClientIDs == {"a", "b"}

\* The Subscribe calls made on the broker: as many as there are client ids,
\* each with any of the ids, so that two calls can share an id or differ.
MaxClients == Cardinality(ClientIDs)

VARIABLES
    clients,     \* Broker.clients: client id -> client object (0: no entry)
    objs,        \* the Client objects made by NewClient, in order of creation
    bEvents,     \* Broker.events: the events waiting for the broker loop
    bRegister,   \* Broker.register: the client objects waiting to be registered
    bUnregister, \* Broker.unregister: the client ids waiting to be removed
    stop,        \* Broker.stop is closed
    running,     \* Broker.run has not returned
    deliveries,  \* the goroutines of run that have yet to call Client.Send
    enqueuedMax, \* per client object, the latest-published frame ever put on its
                 \* events channel (0: none)
    broadcasts,  \* the Broadcast calls that have returned
    panicked     \* the process has panicked

brokerVars == <<clients, objs, bEvents, bRegister, bUnregister, stop, running, deliveries,
                enqueuedMax, broadcasts, panicked>>

\* ------------------------------------------------ calls of single functions

VARIABLES
    fnArgs,           \* the function called and its arguments
    fnOut             \* what the call returned, once it has

fnVars == <<fnArgs, fnOut>>

NotCalled == [fn |-> "none"]

\* No function is called on its own.
NoCall == fnArgs = NotCalled /\ fnOut = NotCalled

\* ------------------------------------------------ the registries on their own

VARIABLES
    toolReg,          \* a ToolRegistry: tools (name -> instance) and factories
    modelReg,         \* a ModelRegistry: factories (name -> factory) and models
    regLog            \* the calls that succeeded, and the last call with its result

regVars == <<toolReg, modelReg, regLog>>

\* The names tools are registered and executed under: one that has a factory,
\* one that has none, and one nobody registers.
RegNames == {"calculator", "test_tool", "unknown"}

\* No instance under a name.
NoTool == [name |-> "", id |-> 0]

\* The tool objects callers register: two objects for each name.
ToolObjects == [name : {"calculator", "test_tool"}, id : {1, 2}]

\* The instance a factory makes.
FactoryTool(name) == [name |-> name, id |-> 3]

\* NewToolRegistry: no instance, no factory.
NewToolRegistry == [tools |-> [n \in RegNames |-> NoTool], factories |-> {}]

\* ToolRegistry.Register: the instance is stored under its name unless the
\* name has an instance.
ToolRegistry_Register(reg, t) ==
    IF reg.tools[t.name] # NoTool
    THEN [err |-> E("tool already registered", 0), reg |-> reg]
    ELSE [err |-> NoError, reg |-> [reg EXCEPT !.tools[t.name] = t]]

\* ToolRegistry.RegisterFactory.
ToolRegistry_RegisterFactory(reg, name) ==
    IF name \in reg.factories
    THEN [err |-> E("tool factory already registered", 0), reg |-> reg]
    ELSE [err |-> NoError, reg |-> [reg EXCEPT !.factories = @ \cup {name}]]

\* A mutant of ToolRegistry_CreateTool: the factory is asked first.
ToolRegistry_CreateTool_factoryFirst(reg, name) ==
    IF name \in reg.factories
    THEN [err |-> NoError, tool |-> FactoryTool(name), made |-> TRUE,
          reg |-> [reg EXCEPT !.tools[name] = FactoryTool(name)]]
    ELSE IF reg.tools[name] # NoTool
    THEN [err |-> NoError, tool |-> reg.tools[name], made |-> FALSE, reg |-> reg]
    ELSE [err |-> E("tool factory not found", 0), tool |-> NoTool, made |-> FALSE,
          reg |-> reg]

\* A mutant of ToolRegistry_CreateTool: the instance the factory makes is
\* not stored.
ToolRegistry_CreateTool_notStored(reg, name) ==
    IF reg.tools[name] # NoTool
    THEN [err |-> NoError, tool |-> reg.tools[name], made |-> FALSE, reg |-> reg]
    ELSE IF name \in reg.factories
    THEN [err |-> NoError, tool |-> FactoryTool(name), made |-> TRUE, reg |-> reg]
    ELSE [err |-> E("tool factory not found", 0), tool |-> NoTool, made |-> FALSE,
          reg |-> reg]

\* ToolRegistry.CreateTool: the instance of the name; when there is none the
\* factory of the name makes one, which is stored.
ToolRegistry_CreateTool(reg, name) ==
    IF reg.tools[name] # NoTool
    THEN [err |-> NoError, tool |-> reg.tools[name], made |-> FALSE, reg |-> reg]
    ELSE IF name \in reg.factories
    THEN [err |-> NoError, tool |-> FactoryTool(name), made |-> TRUE,
          reg |-> [reg EXCEPT !.tools[name] = FactoryTool(name)]]
    ELSE [err |-> E("tool factory not found", 0), tool |-> NoTool, made |-> FALSE,
          reg |-> reg]

\* ToolRegistry.ListTools: the names of the instances.
ToolRegistry_ListTools(reg) ==
    { reg.tools[n].name : n \in { m \in RegNames : reg.tools[m] # NoTool } }

\* What Execute of a tool object returns for an input when it succeeds.
ToolResult(t, input) == [by |-> t, input |-> input]

NoResult == [by |-> NoTool, input |-> TxtEmpty]

\* Manager.ExecuteTool: the tool that was run (NoTool when none was), what
\* the call returns, and the registry after it.
Manager_ExecuteTool(reg, name, input, toolOk) ==
    LET c == ToolRegistry_CreateTool(reg, name)
    IN  IF IsError(c.err)
            THEN [ran |-> NoTool, result |-> NoResult, reg |-> c.reg, made |-> c.made,
                  err |-> Wrap("get tool failed", c.err)]
        ELSE IF ~toolOk
            THEN [ran |-> c.tool, result |-> NoResult, reg |-> c.reg, made |-> c.made,
                  err |-> Wrap("tool execution failed", E("tool error", 0))]
        ELSE [ran |-> c.tool, result |-> ToolResult(c.tool, input), reg |-> c.reg,
              made |-> c.made, err |-> NoError]

\* The model types factories are registered and models are created for: one
\* of the test, one that has a default factory, and one that has none.
ModelIDs == {"test-model", "llama", "unsupported"}

\* The names of model instances (ModelConfig.Name).
InstanceNames == {"test-instance", "other-instance"}

ModelConfigs == [Name : InstanceNames, ModelID : ModelIDs]

\* The factory functions callers register, the default factory, and none.
NoFactory == "none"
CallerFactories == {"factory1", "factory2"}

\* getDefaultFactory: the factory of the built-in types (of which the model
\* has llama), none for any other type.
getDefaultFactory(modelType) ==
    IF modelType = "llama" THEN "NewLLaMAModel" ELSE NoFactory

\* No model instance, and the instance a factory builds for a configuration.
NoModel == [factory |-> NoFactory, config |-> [Name |-> "", ModelID |-> ""]]
BuiltBy(factory, config) == [factory |-> factory, config |-> config]

NewModelRegistry ==
    [factories |-> [n \in ModelIDs |-> NoFactory], models |-> [n \in InstanceNames |-> NoModel]]

\* A mutant of ModelRegistry_Register: a registered name takes the new factory.
ModelRegistry_Register_overwrite(reg, name, factory) ==
    [err |-> IF reg.factories[name] # NoFactory
             THEN E("model already registered", 0) ELSE NoError,
     reg |-> [reg EXCEPT !.factories[name] = factory]]

\* ModelRegistry.Register: the factory is stored under the name unless the
\* name has a factory.
ModelRegistry_Register(reg, name, factory) ==
    IF reg.factories[name] # NoFactory
    THEN [err |-> E("model already registered", 0), reg |-> reg]
    ELSE [err |-> NoError, reg |-> [reg EXCEPT !.factories[name] = factory]]

\* ModelRegistry.CreateModel: the cached instance of config.Name, else the
\* instance the factory of config.ModelID (or the default factory of the
\* type) builds, which is cached; factoryOk is whether the factory succeeds.
ModelRegistry_CreateModel(reg, config, factoryOk) ==
    LET factory == IF reg.factories[config.ModelID] # NoFactory
                   THEN reg.factories[config.ModelID]
                   ELSE getDefaultFactory(config.ModelID)
    IN  IF reg.models[config.Name] # NoModel
            THEN [err |-> NoError, model |-> reg.models[config.Name], reg |-> reg]
        ELSE IF factory = NoFactory
            THEN [err |-> E("unsupported model type", 0), model |-> NoModel, reg |-> reg]
        ELSE IF ~factoryOk
            THEN [err |-> Wrap("create model failed", E("factory error", 0)),
                  model |-> NoModel, reg |-> reg]
        ELSE [err |-> NoError, model |-> BuiltBy(factory, config),
              reg |-> [reg EXCEPT !.models[config.Name] = BuiltBy(factory, config)]]

\* ModelRegistry.ListModels: the names that have a factory.
ModelRegistry_ListModels(reg) == { n \in ModelIDs : reg.factories[n] # NoFactory }

\* The registries as they are made, and nothing called on them yet.
NoRegistryCall == [op |-> "none"]

\* The goroutines that call ExecuteTool at the same time, and a caller that
\* is not inside a call.
Callers == {1, 2}
NoPending == [name |-> "", tool |-> NoTool]

\* The most factory invocations per name the log counts.
MaxFactoryCalls == 2

NewRegistries ==
    /\ toolReg = NewToolRegistry
    /\ modelReg = NewModelRegistry
    /\ regLog = [tools |-> {}, factories |-> [n \in ModelIDs |-> NoFactory],
                 last |-> NoRegistryCall,
                 made |-> [n \in RegNames |-> 0],
                 pending |-> [c \in Callers |-> NoPending]]

\* Manager.Register is called with a tool object.
Call_ToolRegister(t) ==
    LET r == ToolRegistry_Register(toolReg, t)
    IN  /\ toolReg' = r.reg
        /\ regLog' = [regLog EXCEPT
                         !.tools = IF IsError(r.err) THEN @ ELSE @ \cup {t},
                         !.last = [op |-> "ToolRegister", tool |-> t, err |-> r.err]]
        /\ UNCHANGED <<modelReg, agentVars, brokerVars, fnVars>>

\* Manager.RegisterFactory is called with a name.
Call_ToolRegisterFactory(name) ==
    LET r == ToolRegistry_RegisterFactory(toolReg, name)
    IN  /\ toolReg' = r.reg
        /\ regLog' = [regLog EXCEPT
                         !.last = [op |-> "ToolRegisterFactory", name |-> name, err |-> r.err]]
        /\ UNCHANGED <<modelReg, agentVars, brokerVars, fnVars>>

\* Manager.ExecuteTool is called with a name and an input; the tool, if one
\* is run, succeeds or fails.
Call_ExecuteTool(name, input, toolOk) ==
    LET r == Manager_ExecuteTool(toolReg, name, input, toolOk)
    IN  /\ regLog.made[name] < MaxFactoryCalls
        /\ toolReg' = r.reg
        /\ regLog' = [regLog EXCEPT
                         !.made[name] = IF r.made THEN @ + 1 ELSE @,
                         !.last = [op |-> "ExecuteTool", name |-> name, input |-> input,
                                   known |-> (toolReg.tools[name] # NoTool
                                              \/ name \in toolReg.factories),
                                   toolOk |-> toolOk, ran |-> r.ran,
                                   result |-> r.result, err |-> r.err]]
        /\ UNCHANGED <<modelReg, agentVars, brokerVars, fnVars>>

\* Manager.ExecuteTool of one of the concurrent callers, up to the return of
\* CreateTool (which holds the lock of the registry from its first line to
\* its return).
ExecuteTool_CreateTool(caller, name) ==
    LET c == ToolRegistry_CreateTool(toolReg, name)
    IN  /\ regLog.pending[caller] = NoPending
        /\ regLog.made[name] < MaxFactoryCalls
        /\ toolReg' = c.reg
        /\ regLog' = [regLog EXCEPT
                         !.made[name] = IF c.made THEN @ + 1 ELSE @,
                         !.pending[caller] = IF IsError(c.err) THEN NoPending
                                             ELSE [name |-> name, tool |-> c.tool],
                         !.last = [op |-> "CreateTool", caller |-> caller, name |-> name,
                                   tool |-> c.tool, err |-> c.err]]
        /\ UNCHANGED <<modelReg, agentVars, brokerVars, fnVars>>

\* Manager.ExecuteTool of that caller from the call of tool.Execute, made
\* without the lock, to its return.
ExecuteTool_Execute(caller, toolOk) ==
    /\ regLog.pending[caller] # NoPending
    /\ regLog' = [regLog EXCEPT
                     !.pending[caller] = NoPending,
                     !.last = [op |-> "Execute", caller |-> caller,
                               name |-> regLog.pending[caller].name,
                               ran |-> regLog.pending[caller].tool,
                               err |-> IF toolOk THEN NoError
                                       ELSE Wrap("tool execution failed", E("tool error", 0))]]
    /\ UNCHANGED <<toolReg, modelReg, agentVars, brokerVars, fnVars>>

\* ModelRegistry.Register is called with a name and a factory.
Call_ModelRegister(name, factory) ==
    LET r == ModelRegistry_Register(modelReg, name, factory)
    IN  /\ modelReg' = r.reg
        /\ regLog' = [regLog EXCEPT
                         !.factories[name] = IF IsError(r.err) THEN @ ELSE factory,
                         !.last = [op |-> "ModelRegister", name |-> name,
                                   factory |-> factory, err |-> r.err]]
        /\ UNCHANGED <<toolReg, agentVars, brokerVars, fnVars>>

\* ModelRegistry.CreateModel is called with a configuration.
Call_CreateModel(config, factoryOk) ==
    LET r == ModelRegistry_CreateModel(modelReg, config, factoryOk)
    IN  /\ modelReg' = r.reg
        /\ regLog' = [regLog EXCEPT
                         !.last = [op |-> "CreateModel", config |-> config,
                                   fresh |-> modelReg.models[config.Name] = NoModel,
                                   factoryOk |-> factoryOk, model |-> r.model,
                                   err |-> r.err]]
        /\ UNCHANGED <<toolReg, agentVars, brokerVars, fnVars>>

NextRegistries ==
    \/ \E t \in ToolObjects : Call_ToolRegister(t)
    \/ \E name \in {"calculator"} : Call_ToolRegisterFactory(name)
    \/ \E name \in RegNames : \E toolOk \in BOOLEAN : Call_ExecuteTool(name, TxtSum, toolOk)
    \/ \E caller \in Callers : \E name \in RegNames : ExecuteTool_CreateTool(caller, name)
    \/ \E caller \in Callers : \E toolOk \in BOOLEAN : ExecuteTool_Execute(caller, toolOk)
    \/ \E name \in ModelIDs \ {"unsupported"} : \E factory \in CallerFactories :
          Call_ModelRegister(name, factory)
    \/ \E config \in ModelConfigs : \E factoryOk \in BOOLEAN :
          Call_CreateModel(config, factoryOk)

\* An event as sendEvent builds it: the id's kind, the number formatted into
\* the id (iteration or step, 0 when none) and the status.
Ev(id, n, status) == [id |-> id, n |-> n, status |-> status]

\* The retry ceiling of think.
RetryCeiling == 3

\* A mutant of budgetLeft: one pass too many.
budgetLeft_offByOne(it, max) == it <= max

\* thinkExecuteLoop: the loop condition.
budgetLeft(it, max) == it < max

\* think: whether a response that does not parse is retried.
retryAllowed(it) == it < RetryCeiling

\* A mutant of nextStepFollows: the loop goes on whatever the step says.
nextStepFollows_ignoresContinue(cont, i, n) == i < n

\* execute: whether the loop goes on to the next step.
nextStepFollows(cont, i, n) == cont /\ i < n

\* A mutant of nextStep: the loop stays on the step it has just run.
nextStep_repeat(i) == i

\* execute: the step the range loop takes after step i.
nextStep(i) == i + 1

\* A mutant of ExecuteReturn: the Completed event whatever the outcome.
ExecuteReturn_alwaysCompleted(res, err) ==
    [answer |-> IF IsError(err) THEN TxtEmpty ELSE res, err |-> err,
     event |-> Ev("complete", 0, "completed")]

\* Execute, after thinkExecuteLoop returned: the final event and the values
\* returned.
ExecuteReturn(res, err) ==
    IF IsError(err)
    THEN [answer |-> TxtEmpty, err |-> err, event |-> Ev("error", 0, "error")]
    ELSE [answer |-> res, err |-> NoError, event |-> Ev("complete", 0, "completed")]

\* A mutant of executeRecoveryFailure: the partial result, silently.
executeRecoveryFailure_partial(res, i, err, recoverErr) ==
    [result |-> res, shouldContinue |-> FALSE, err |-> NoError]

\* execute, when the recovery of step i failed too: what it returns.
executeRecoveryFailure(res, i, err, recoverErr) ==
    [result |-> TxtEmpty, shouldContinue |-> FALSE,
     err |-> E("step failed", i) \o err \o Wrap("recovery failed", recoverErr)]

NotReturned == [answer |-> TxtEmpty, err |-> NoError]

\* The model's answers to a think prompt: a generation error, prose without
\* a plan, or a plan document.
ModelResponses ==
    {[ok |-> FALSE, text |-> <<>>, err |-> E("generation error", 0)],
     [ok |-> TRUE, text |-> <<Prose>>, err |-> NoError]}
    \cup { [ok |-> TRUE, text |-> <<Doc(pl)>>, err |-> NoError] : pl \in Plans }

\* The model's answers under the run's context.
ModelResponsesAt(late) ==
    IF late THEN {[ok |-> FALSE, text |-> <<>>, err |-> DeadlineExceeded]} ELSE ModelResponses

\* The agents a run is started on: fully configured with every iteration
\* budget, and with any backend missing for a budget of one iteration.
Configs ==
    [model : {TRUE}, toolManager : {TRUE}, ragEngine : {TRUE}, MaxIterations : 0..MaxIter]
    \cup [model : BOOLEAN, toolManager : BOOLEAN, ragEngine : BOOLEAN, MaxIterations : {1}]

\* A run before Execute is called, on any of the agents.
NewRun ==
    /\ agent \in Configs
    /\ query = TxtSumIt
    /\ pc = "idle"
    /\ iteration = 0
    /\ currentQuery = TxtEmpty
    /\ plan = NoPlan
    /\ stepIdx = 0
    /\ executionHistory = <<>>
    /\ result = TxtEmpty
    /\ shouldContinue = FALSE
    /\ stepErr = NoError
    /\ published = <<>>
    /\ calls = <<>>
    /\ ret = NotReturned
    /\ expired = FALSE

\* The registry of an application with the tools feature on: initTools has
\* registered the instances.
ToolsEnabled == [tools |-> {ToolCalc}, factories |-> {}]

\* The registry of an application with the tools feature off: it holds only
\* the factories the tool package registers when it is loaded.
ToolsDisabled == [tools |-> {}, factories |-> {ToolCalc}]

InitAgent ==
    /\ registry = ToolsEnabled
    /\ NewRun

\* A mutant of Return: a failed run hands out the result of its last
\* completed step.
Return_partialResult(res, err, pub) ==
    /\ pc' = "done"
    /\ ret' = [answer |-> IF IsError(err) THEN result ELSE res, err |-> err]
    /\ published' = Append(pub, ExecuteReturn(res, err).event)

\* Execute returns: the final event is sent and the run is over.
Return(res, err, pub) ==
    /\ pc' = "done"
    /\ ret' = [answer |-> ExecuteReturn(res, err).answer, err |-> ExecuteReturn(res, err).err]
    /\ published' = Append(pub, ExecuteReturn(res, err).event)

\* Agent.Execute up to the call of thinkExecuteLoop.
Execute ==
    /\ pc = "idle"
    /\ IF ~agent.model
       THEN /\ pc' = "done"
            /\ ret' = [answer |-> TxtEmpty, err |-> E("model not configured", 0)]
            /\ UNCHANGED <<published, currentQuery>>
       ELSE /\ pc' = "loop"
            /\ published' = Append(published, Ev("start", 0, "thinking"))
            /\ currentQuery' = query
            /\ UNCHANGED ret
    /\ UNCHANGED <<agent, query, registry, iteration, plan, stepIdx, executionHistory,
                   result, shouldContinue, stepErr, calls>>
    /\ UNCHANGED <<expired, brokerVars, fnVars, regVars>>

\* thinkExecuteLoop: the head of one loop pass, or the end of the budget.
thinkExecuteLoop ==
    /\ pc = "loop"
    /\ IF budgetLeft(iteration, agent.MaxIterations)
       THEN /\ iteration' = iteration + 1
            /\ published' = Append(published, Ev("think", iteration + 1, "thinking"))
            /\ pc' = "think"
            /\ UNCHANGED ret
       ELSE /\ Return(TxtEmpty, E("max iterations exceeded", 0), published)
            /\ UNCHANGED iteration
    /\ UNCHANGED <<agent, query, registry, currentQuery, plan, stepIdx, executionHistory,
                   result, shouldContinue, stepErr, calls>>
    /\ UNCHANGED <<expired, brokerVars, fnVars, regVars>>

\* A plan is accepted: the Planning and Executing events, then execute starts.
Accept(pl) ==
    /\ plan' = pl
    /\ stepIdx' = 1
    /\ executionHistory' = <<>>
    /\ result' = TxtEmpty
    /\ shouldContinue' = FALSE
    /\ pc' = "step"
    /\ published' = published \o <<Ev("plan", iteration, "planning"),
                                   Ev("execute", iteration, "executing")>>
    /\ UNCHANGED ret

\* The think phase fails: thinkExecuteLoop wraps the error and Execute returns.
ThinkFails(err) ==
    /\ Return(TxtEmpty, Wrap("think phase failed", err), published)
    /\ UNCHANGED <<plan, stepIdx, executionHistory, result, shouldContinue>>

\* Agent.think: one model call, the parse, and the validation of the plan.
think ==
    /\ pc = "think"
    /\ \E reply \in ModelResponsesAt(expired) :
        LET parsed == ParseExecutionPlan(reply.text)
            verdict == AgentValidatePlan(parsed.plan, currentQuery, agent.toolManager,
                                         agent.ragEngine, registry.tools)
        IN  /\ calls' = <<Call("model", "think", currentQuery, reply.ok, TxtEmpty)>>
            /\ IF ~reply.ok
                   THEN ThinkFails(Wrap("model generation failed", reply.err))
               ELSE IF IsError(parsed.err) /\ retryAllowed(iteration)
                   THEN /\ pc' = "retry"
                        /\ UNCHANGED <<plan, stepIdx, executionHistory, result,
                                       shouldContinue, published, ret>>
               ELSE IF IsError(parsed.err)
                   THEN ThinkFails(Wrap("plan parse failed", parsed.err))
               ELSE IF IsError(verdict)
                   THEN ThinkFails(Wrap("plan validation failed", verdict))
               ELSE Accept(parsed.plan)
    /\ UNCHANGED <<agent, query, registry, iteration, currentQuery, stepErr>>
    /\ UNCHANGED <<expired, brokerVars, fnVars, regVars>>

\* Agent.thinkWithRetryInternal: one model call with the retry prompt and the
\* parse; think returns its result as it is.
thinkWithRetryInternal ==
    /\ pc = "retry"
    /\ \E reply \in ModelResponsesAt(expired) :
        LET parsed == ParseExecutionPlan(reply.text)
        IN  /\ calls' = Append(calls, Call("model", "retry", currentQuery, reply.ok, TxtEmpty))
            /\ IF ~reply.ok
                   THEN ThinkFails(Wrap("retry model generation failed", reply.err))
               ELSE IF IsError(parsed.err)
                   THEN ThinkFails(Wrap("retry plan parse failed", parsed.err))
               ELSE Accept(parsed.plan)
    /\ UNCHANGED <<agent, query, registry, iteration, currentQuery, stepErr>>
    /\ UNCHANGED <<expired, brokerVars, fnVars, regVars>>

\* A mutant of nextQuery: the next loop pass thinks about the goal again.
nextQuery_goal(res) == query

\* thinkExecuteLoop: currentQuery = result, the query of the next loop pass.
nextQuery(res) == res

\* execute, after a step has a result (its own or the recovery's), through the
\* return to thinkExecuteLoop and to Execute.
CompleteStep(pub, stepResult) ==
    LET step == plan.Steps[stepIdx]
        completed == Append(pub, Ev("step_complete", stepIdx, "executing"))
    IN  /\ result' = stepResult
        /\ executionHistory' = Append(executionHistory, stepResult)
        /\ shouldContinue' = step.ShouldContinue
        /\ IF nextStepFollows(step.ShouldContinue, stepIdx, Len(plan.Steps))
               THEN /\ stepIdx' = nextStep(stepIdx)
                    /\ pc' = "step"
                    /\ published' = completed
                    /\ UNCHANGED <<ret, currentQuery>>
           ELSE IF ~step.ShouldContinue
               THEN /\ Return(stepResult, NoError, completed)
                    /\ UNCHANGED <<stepIdx, currentQuery>>
           ELSE /\ currentQuery' = nextQuery(stepResult)
                /\ pc' = "loop"
                /\ published' = completed
                /\ UNCHANGED <<stepIdx, ret>>

\* execute: one step, from its start event to the return of executeStep.
executeStepOfPlan ==
    /\ pc = "step"
    /\ LET step == plan.Steps[stepIdx]
           started == Append(published, Ev("step_start", stepIdx, "executing"))
       IN  \E reply \in StepReplies(step, expired) :
            LET o == executeStep(agent, registry.tools, registry.factories, step, reply)
            IN  /\ calls' = calls \o o.calls
                /\ registry' = [registry EXCEPT !.tools = o.tools]
                /\ CASE o.kind = "ok" ->
                            /\ CompleteStep(started, o.result)
                            /\ UNCHANGED stepErr
                     [] o.kind = "err" ->
                            /\ pc' = "recover"
                            /\ stepErr' = o.err
                            /\ published' = Append(started, Ev("step_error", stepIdx, "error"))
                            /\ UNCHANGED <<stepIdx, executionHistory, result, shouldContinue,
                                           currentQuery, ret>>
                     [] OTHER ->
                            /\ pc' = "panic"
                            /\ published' = started
                            /\ UNCHANGED <<stepIdx, executionHistory, result, shouldContinue,
                                           currentQuery, ret, stepErr>>
    /\ UNCHANGED <<agent, query, iteration, plan>>
    /\ UNCHANGED <<expired, brokerVars, fnVars, regVars>>

\* execute: the recovery of a failed step, through to the step's completion
\* or the failure of the run.
recoverStepOfPlan ==
    /\ pc = "recover"
    /\ LET step == plan.Steps[stepIdx]
       IN  \E replies \in RecoveryReplies(step, stepErr, executionHistory, expired) :
            LET o == recoverFromError(agent, registry.tools, registry.factories, step,
                                      stepErr, executionHistory, replies)
            IN  /\ calls' = calls \o o.calls
                /\ registry' = [registry EXCEPT !.tools = o.tools]
                /\ CASE o.kind = "ok" ->
                            /\ CompleteStep(Append(published,
                                   Ev("step_recovered", stepIdx, "executing")), o.result)
                            /\ stepErr' = NoError
                     [] o.kind = "err" ->
                            /\ LET x == executeRecoveryFailure(result, stepIdx, stepErr, o.err)
                               IN  IF IsError(x.err)
                                   THEN Return(TxtEmpty, Wrap("execute phase failed", x.err),
                                               published)
                                   ELSE Return(x.result, NoError, published)
                            /\ UNCHANGED <<stepIdx, executionHistory, result, shouldContinue,
                                           currentQuery, stepErr>>
                     [] OTHER ->
                            /\ pc' = "panic"
                            /\ UNCHANGED <<stepIdx, executionHistory, result, shouldContinue,
                                           currentQuery, ret, stepErr, published>>
    /\ UNCHANGED <<agent, query, iteration, plan>>
    /\ UNCHANGED <<expired, brokerVars, fnVars, regVars>>

\* The deadline Execute set on the run's context passes.
DeadlineExpires ==
    /\ pc \notin {"idle", "done", "panic"}
    /\ ~expired
    /\ expired' = TRUE
    /\ UNCHANGED <<agent, query, registry, pc, iteration, currentQuery, plan, stepIdx,
                   executionHistory, result, shouldContinue, stepErr, published, calls, ret>>
    /\ UNCHANGED <<brokerVars, fnVars, regVars>>

\* Agent.executeToolStep of a concurrent run on the shared tool manager (a
\* run executes the steps of a retried plan without the engine's validation),
\* or the tool handler of the server: Manager.ExecuteTool is called with the
\* name of a tool, and nothing of this run is touched but the registry.
ToolNames == {ToolCalc, ToolGhost}

executeToolStepOfOtherRun ==
    /\ \E name \in ToolNames : \E reply \in RepliesAt("tool", FALSE) :
          registry' = [registry EXCEPT
                         !.tools = ExecuteTool(registry.tools, registry.factories,
                                               name, reply).tools]
    /\ UNCHANGED <<agent, query, pc, iteration, currentQuery, plan, stepIdx,
                   executionHistory, result, shouldContinue, stepErr, published,
                   calls, ret>>
    /\ UNCHANGED <<expired, brokerVars, fnVars, regVars>>

NextAgent ==
    \/ Execute
    \/ DeadlineExpires
    \/ thinkExecuteLoop
    \/ think
    \/ thinkWithRetryInternal
    \/ executeStepOfPlan
    \/ recoverStepOfPlan

\* ------------------------------------------------- the broker's operations

\* NewClient: an open client with an empty events channel. sub is the state
\* of the Subscribe call that made it; unreg counts the unregister messages
\* that call has yet to send (its deferred one and its watcher's).
NewClient(id) == [ID |-> id, events |-> <<>>, closed |-> FALSE, sub |-> "live", unreg |-> 0]

\* NewBroker: empty map, empty channels, the loop running.
NewBroker ==
    /\ clients = [id \in ClientIDs |-> 0]
    /\ objs = <<>>
    /\ bEvents = <<>>
    /\ bRegister = <<>>
    /\ bUnregister = <<>>
    /\ stop = FALSE
    /\ running = TRUE
    /\ deliveries = {}
    /\ enqueuedMax = <<>>
    /\ broadcasts = 0
    /\ panicked = FALSE

\* The data of an event: what json.Marshal accepts, or what it rejects.
EventData == {"json", "unmarshalable"}

\* serializeEvent: the frame of the event (named by the event's number), or
\* the error of json.Marshal.
serializeEvent(event) ==
    IF event.data = "json"
    THEN [bytes |-> event.n, err |-> NoError]
    ELSE [bytes |-> 0, err |-> Wrap("serialize event data failed", E("json: unsupported", 0))]

\* The select of Client.Send with no default case: a full channel takes the send.
Client_Send_noDefault(c) ==
    IF c.closed THEN {"panic", "done"} ELSE {"sent"}

\* The select of Client.Send: the cases that can run. A send on the closed
\* events channel is ready and panics; done is ready once closed; default
\* runs only when no other case is ready.
Client_Send(c) ==
    IF c.closed THEN {"panic", "done"}
    ELSE IF Len(c.events) < ClientQueueCap THEN {"sent"}
    ELSE {"default"}

\* Client.Close: done and events are closed; closing a closed channel panics.
Client_Close(c) == [c EXCEPT !.closed = TRUE]

\* The select of Broadcast with no default case: a full channel blocks.
BroadcastSelect_noDefault(q) ==
    IF Len(q) < BrokerQueueCap THEN "sent" ELSE "block"

\* The select of Broadcast: the send when the channel has room, else default.
BroadcastSelect(q) ==
    IF Len(q) < BrokerQueueCap THEN "sent" ELSE "default"

\* The client objects the map holds.
Registered == { clients[id] : id \in ClientIDs } \ {0}

\* Broker.Subscribe up to its loop: a new client is sent on register. The
\* call notes whether the loop of the broker had returned when it was made.
Subscribe(id) ==
    /\ ~panicked
    /\ Len(objs) < MaxClients
    /\ Len(bRegister) < RegisterCap
    /\ objs' = Append(objs, NewClient(id) @@ [afterShutdown |-> ~running])
    /\ enqueuedMax' = Append(enqueuedMax, 0)
    /\ bRegister' = Append(bRegister, Len(objs) + 1)
    /\ UNCHANGED <<clients, bEvents, bUnregister, stop, running, deliveries,
                   broadcasts, panicked>>
    /\ UNCHANGED <<agentVars, fnVars, regVars>>

\* The loop of Subscribe takes a frame from the client's events channel and
\* writes it; a failed write ends the call.
SubscribeReceive(c) ==
    /\ ~panicked
    /\ objs[c].sub = "live"
    /\ objs[c].events # <<>>
    /\ \E written \in BOOLEAN :
        objs' = [objs EXCEPT ![c].events = Tail(@),
                             ![c].sub = IF written THEN "live" ELSE "ended",
                             ![c].unreg = IF written THEN 0 ELSE 2]
    /\ UNCHANGED <<clients, bEvents, bRegister, bUnregister, stop, running, deliveries,
                   enqueuedMax, broadcasts, panicked>>
    /\ UNCHANGED <<agentVars, fnVars, regVars>>

\* The loop of Subscribe ends: the context is done (deadline or peer) or the
\* client's done channel is closed. The deferred cancel wakes the watcher, so
\* two unregister messages are due.
SubscribeReturn(c) ==
    /\ ~panicked
    /\ objs[c].sub = "live"
    /\ objs' = [objs EXCEPT ![c].sub = "ended", ![c].unreg = 2]
    /\ UNCHANGED <<clients, bEvents, bRegister, bUnregister, stop, running, deliveries,
                   enqueuedMax, broadcasts, panicked>>
    /\ UNCHANGED <<agentVars, fnVars, regVars>>

\* The deferred function of Subscribe, or its watcher goroutine, sends the
\* client id on unregister.
SubscribeUnregister(c) ==
    /\ ~panicked
    /\ objs[c].sub = "ended"
    /\ objs[c].unreg > 0
    /\ Len(bUnregister) < UnregisterCap
    /\ bUnregister' = Append(bUnregister, objs[c].ID)
    /\ objs' = [objs EXCEPT ![c].unreg = @ - 1]
    /\ UNCHANGED <<clients, bEvents, bRegister, stop, running, deliveries,
                   enqueuedMax, broadcasts, panicked>>
    /\ UNCHANGED <<agentVars, fnVars, regVars>>

\* Broker.run, case register: the map entry of the id is set to the client.
runRegister ==
    /\ ~panicked /\ running
    /\ bRegister # <<>>
    /\ clients' = [clients EXCEPT ![objs[Head(bRegister)].ID] = Head(bRegister)]
    /\ bRegister' = Tail(bRegister)
    /\ UNCHANGED <<objs, bEvents, bUnregister, stop, running, deliveries,
                   enqueuedMax, broadcasts, panicked>>
    /\ UNCHANGED <<agentVars, fnVars, regVars>>

\* A mutant of deleteClient: the entry stays in the map.
deleteClient_keeps(cl, id) == cl

\* delete(b.clients, clientID).
deleteClient(cl, id) == [cl EXCEPT ![id] = 0]

\* Broker.GetClientIDs: the ids of the map (no id twice); and
\* Broker.GetClientsCount: the size of the map.
GetClientIDs(cl) == { id \in ClientIDs : cl[id] # 0 }
GetClientsCount(cl) == Cardinality(DOMAIN cl) - Cardinality({ id \in DOMAIN cl : cl[id] = 0 })

\* Broker.run, case unregister: the client of the id, if any, is closed and
\* its entry deleted.
runUnregister ==
    /\ ~panicked /\ running
    /\ bUnregister # <<>>
    /\ bUnregister' = Tail(bUnregister)
    /\ LET c == clients[Head(bUnregister)]
       IN  IF c = 0
           THEN UNCHANGED <<clients, objs, panicked>>
           ELSE IF objs[c].closed
           THEN /\ panicked' = TRUE
                /\ UNCHANGED <<clients, objs>>
           ELSE /\ objs' = [objs EXCEPT ![c] = Client_Close(@)]
                /\ clients' = deleteClient(clients, Head(bUnregister))
                /\ UNCHANGED panicked
    /\ UNCHANGED <<bEvents, bRegister, stop, running, deliveries,
                   enqueuedMax, broadcasts>>
    /\ UNCHANGED <<agentVars, fnVars, regVars>>

\* Broker.run, case event: the event is serialized and one goroutine per
\* client of the map is started to send it; an event that cannot be
\* serialized is skipped.
runEvent ==
    /\ ~panicked /\ running
    /\ bEvents # <<>>
    /\ bEvents' = Tail(bEvents)
    /\ LET frame == serializeEvent(Head(bEvents))
       IN  IF IsError(frame.err)
           THEN UNCHANGED deliveries
           ELSE deliveries' = deliveries \cup { <<c, frame.bytes>> : c \in Registered }
    /\ UNCHANGED <<clients, objs, bRegister, bUnregister, stop, running,
                   enqueuedMax, broadcasts, panicked>>
    /\ UNCHANGED <<agentVars, fnVars, regVars>>

\* Broker.run, case stop: every client of the map is closed, the map is
\* replaced by an empty one and the loop returns.
runStop ==
    /\ ~panicked /\ running
    /\ stop
    /\ IF \E c \in Registered : objs[c].closed
       THEN /\ panicked' = TRUE
            /\ UNCHANGED <<clients, objs, running>>
       ELSE /\ objs' = [c \in 1..Len(objs) |->
                           IF c \in Registered THEN Client_Close(objs[c]) ELSE objs[c]]
            /\ clients' = [id \in ClientIDs |-> 0]
            /\ running' = FALSE
            /\ UNCHANGED panicked
    /\ UNCHANGED <<bEvents, bRegister, bUnregister, stop, deliveries,
                   enqueuedMax, broadcasts>>
    /\ UNCHANGED <<agentVars, fnVars, regVars>>

\* A goroutine started by run calls Client.Send with its frame.
Deliver(d) ==
    /\ ~panicked
    /\ d \in deliveries
    /\ deliveries' = deliveries \ {d}
    /\ \E o \in Client_Send(objs[d[1]]) :
        /\ objs' = IF o = "sent" THEN [objs EXCEPT ![d[1]].events = Append(@, d[2])] ELSE objs
        /\ enqueuedMax' = IF o = "sent" /\ d[2] > enqueuedMax[d[1]]
                          THEN [enqueuedMax EXCEPT ![d[1]] = d[2]]
                          ELSE enqueuedMax
        /\ panicked' = (o = "panic")
    /\ UNCHANGED <<clients, bEvents, bRegister, bUnregister, stop, running,
                   broadcasts>>
    /\ UNCHANGED <<agentVars, fnVars, regVars>>

\* Broker.Broadcast: the event is sent on events if the channel has room and
\* is discarded otherwise; events is never closed.
Broadcast(data) ==
    /\ ~panicked
    /\ broadcasts < MaxEvents
    /\ LET o == BroadcastSelect(bEvents)
       IN  /\ o # "block"
           /\ bEvents' = IF o = "sent"
                         THEN Append(bEvents, [n |-> broadcasts + 1, data |-> data])
                         ELSE bEvents
    /\ broadcasts' = broadcasts + 1
    /\ UNCHANGED <<clients, objs, bRegister, bUnregister, stop, running, deliveries,
                   enqueuedMax, panicked>>
    /\ UNCHANGED <<agentVars, fnVars, regVars>>

\* Broker.Close, called once when the application shuts down: stop is closed.
Broker_Close ==
    /\ ~panicked
    /\ ~stop
    /\ stop' = TRUE
    /\ UNCHANGED <<clients, objs, bEvents, bRegister, bUnregister, running, deliveries,
                   enqueuedMax, broadcasts, panicked>>
    /\ UNCHANGED <<agentVars, fnVars, regVars>>

NextBroker ==
    \/ \E id \in ClientIDs : Subscribe(id)
    \/ \E c \in 1..Len(objs) : SubscribeReceive(c)
    \/ \E c \in 1..Len(objs) : SubscribeReturn(c)
    \/ \E c \in 1..Len(objs) : SubscribeUnregister(c)
    \/ runRegister
    \/ runUnregister
    \/ runEvent
    \/ runStop
    \/ \E d \in deliveries : Deliver(d)
    \/ \E data \in EventData : Broadcast(data)
    \/ Broker_Close

vars == <<agentVars, brokerVars, fnVars, regVars>>

\* The run of an agent; its broker is left as NewBroker made it.
Init == InitAgent /\ NewBroker /\ NoCall /\ NewRegistries

Next == NextAgent

Spec == Init /\ [][Next]_vars

\* The agent the broker's application holds, before any run.
IdleAgent ==
    /\ InitAgent
    /\ agent = [model |-> TRUE, toolManager |-> TRUE, ragEngine |-> TRUE, MaxIterations |-> 1]

InitBroker == IdleAgent /\ NewBroker /\ NoCall /\ NewRegistries

SpecBroker == InitBroker /\ [][NextBroker]_vars

\* ------------------------------------------------- properties of the run

Last(s) == s[Len(s)]

\* The step that is being executed or recovered.
CurrentStep == plan.Steps[stepIdx]

\* A step gets its result in this transition (its own or its recovery's).
StepFinishes == /\ pc \in {"step", "recover"}
                /\ Len(executionHistory') = Len(executionHistory) + 1

\* C1: when a step finishes, directly or through a successful recovery, with
\* continue=false, Execute returns in that same transition with the step's
\* result as the answer and no error, the Completed event is the last one
\* published, and nothing happens after the return: no later step runs and no
\* further iteration starts, also when the step is not the last of its plan.
C1_StopOnNoContinue ==
    [][/\ (StepFinishes /\ ~CurrentStep.ShouldContinue)
            => /\ pc' = "done"
               /\ ret' = [answer |-> Last(executionHistory'), err |-> NoError]
               /\ Last(published').status = "completed"
               /\ Last(calls').ok
               /\ stepIdx' = stepIdx /\ iteration' = iteration
       /\ pc = "done" => UNCHANGED vars]_vars

\* A run ended by a recovered step with continue=false that is not the last
\* step of its plan.
C1_Witness ==
    /\ pc = "done" /\ ~IsError(ret.err)
    /\ stepIdx < Len(plan.Steps)
    /\ \E k \in 1..Len(published) :
           published[k].id = "step_recovered" /\ published[k].n = stepIdx

\* The think phases a run has started.
ThinkPhases == Cardinality({ k \in 1..Len(published) : published[k].id = "think" })

BudgetExceeded == "max iterations exceeded" \in Msgs(ret.err)

\* C2: a run never starts more think phases than max_iterations; a run ends
\* with the budget error only after exactly max_iterations think phases, the
\* last of which ended with continue=true, and then it returns no answer; and
\* a run that returns an answer ended on a step with continue=false, so a run
\* whose iterations all continue and in which nothing fails can only end with
\* the budget error.
C2_IterationBudget ==
    /\ ThinkPhases <= agent.MaxIterations
    /\ ThinkPhases = iteration
    /\ (pc = "done" /\ BudgetExceeded)
          => /\ ThinkPhases = agent.MaxIterations
             /\ ret.answer = TxtEmpty
             /\ (agent.MaxIterations > 0 => shouldContinue)
    /\ (pc = "done" /\ ~IsError(ret.err)) => ~shouldContinue
    /\ (pc = "loop" /\ iteration > 0) => shouldContinue

\* A run with the largest budget that used all of it.
C2_Witness ==
    pc = "done" /\ BudgetExceeded /\ agent.MaxIterations = MaxIter /\ ThinkPhases = MaxIter

\* The recovery of the current step fails in this transition.
RecoveryFails == /\ pc = "recover"
                 /\ pc' \notin {"recover", "panic"}
                 /\ executionHistory' = executionHistory

\* e occurs in err as a contiguous part of the cause chain.
InChain(e, err) == \E k \in 0..(Len(err) - Len(e)) : SubSeq(err, k + 1, k + Len(e)) = e

\* C3: when the recovery of a failed step fails, Execute returns in that
\* same transition: the answer is empty, the error holds the step's original
\* failure followed by the recovery's failure, the last event is the Error
\* event, every call the recovery made failed (or found nothing), and no
\* further step runs.
C3_RecoveryFailureIsFatal ==
    [][RecoveryFails
         => /\ pc' = "done"
            /\ ret'.answer = TxtEmpty
            /\ IsError(ret'.err)
            /\ InChain(E("step failed", stepIdx) \o stepErr \o E("recovery failed", 0), ret'.err)
            /\ Last(ret'.err).msg # "recovery failed"
            /\ Last(published').status = "error"
            /\ \A k \in (Len(calls) + 1)..Len(calls') :
                   ~calls'[k].ok \/ calls'[k].out = TxtEmpty
            /\ stepIdx' = stepIdx
            /\ executionHistory' = executionHistory]_vars

\* A run whose second step failed beyond recovery after the first succeeded.
C3_Witness ==
    /\ pc = "done"
    /\ "recovery failed" \in Msgs(ret.err)
    /\ Len(executionHistory) >= 1
    /\ result # TxtEmpty
    /\ ret.answer = TxtEmpty

\* The model calls of the current think phase.
ThinkAttempts ==
    Cardinality({ k \in 1..Len(calls) : calls[k].phase \in {"think", "retry"} })

ParseFailureSurfaced ==
    Msgs(ret.err) \cap {"plan parse failed", "retry plan parse failed"} # {}

\* C4: a think phase surfaces an extraction or validation failure of the
\* parser only once its attempt count has reached the ceiling of 3.
C4_RetryUntilCeiling ==
    (pc = "done" /\ ParseFailureSurfaced) => ThinkAttempts >= RetryCeiling

\* The engine's own validation of the plan being executed: its per-step
\* checks and the relevance gate (against the goal or the current query).
PlanPassedValidation ==
    /\ ~IsError(agentValidateSteps(plan.Steps, 1, agent.toolManager, agent.ragEngine,
                                   registry.tools))
    /\ isPlanRelevant(plan, query) \/ isPlanRelevant(plan, currentQuery)

\* C5: a step is executed or recovered only when its plan passed the
\* engine's per-step validation and the relevance gate.
C5_OnlyValidatedPlansRun ==
    pc \in {"step", "recover"} => PlanPassedValidation

\* The plan has a tool step whose tool_name is no registered tool.
HasUnregisteredTool(pl) ==
    \E k \in 1..Len(pl.Steps) :
        /\ pl.Steps[k].Action = "search_tool"
        /\ IsStr(pl.Steps[k].Parameters, "tool_name")
        /\ pl.Steps[k].Parameters["tool_name"].v \notin registry.tools \cup registry.factories

\* C6: for a plan with a tool step that names an unregistered tool, no tool,
\* retrieval or reasoning call is made for any of its steps.
C6_UnregisteredToolNeverRuns ==
    HasUnregisteredTool(plan)
        => \A k \in 1..Len(calls) : calls[k].phase \notin {"step", "recover"}

Statuses(s) == { k \in 1..Len(s) : s[k].status = "completed" }

\* C10 as claimed: a run that returns an answer publishes exactly one
\* Completed event, as its last event; a run that returns an error publishes
\* no Completed event and its last event has status Error.
C10_Claimed ==
    pc = "done"
        => IF ~IsError(ret.err)
           THEN Statuses(published) = {Len(published)}
           ELSE /\ Statuses(published) = {}
                /\ Len(published) > 0
                /\ Last(published).status = "error"

\* C10, amended: a run that returns an answer publishes exactly one Completed
\* event, as its last event; a run that returns an error publishes no
\* Completed event and, when the model is configured, its last event has
\* status Error; a run on an agent without a model publishes no event.
C10_TerminalEvent ==
    pc = "done"
        => IF ~IsError(ret.err)
           THEN Statuses(published) = {Len(published)} /\ agent.model
           ELSE /\ Statuses(published) = {}
                /\ IF agent.model
                   THEN Len(published) > 0 /\ Last(published).status = "error"
                   ELSE published = <<>>

\* A run that returns an answer after one of its steps failed and was
\* recovered: an Error event lies before the Completed event.
C10_Witness ==
    /\ pc = "done" /\ ~IsError(ret.err)
    /\ \E k \in 1..Len(published) : published[k].status = "error"

\* ---------------------------------------------- properties of the broker

\* The goroutine of delivery d makes its call of Client.Send in this transition.
Delivers(d) == d \in deliveries /\ d \notin deliveries'

\* The frames on the events channel of a client.
Queued(c) == { c.events[k] : k \in 1..Len(c.events) }

\* C7: the frames of the events a run published are put on a subscriber's
\* events channel in the order in which the run published them: a frame is
\* never enqueued for a client after a frame of a later event was.
C7_PublishOrder ==
    [][\A d \in deliveries :
          (Delivers(d) /\ objs'[d[1]].events # objs[d[1]].events)
              => d[2] > enqueuedMax[d[1]]]_vars

\* C8: when a delivery goroutine calls Send on an open client whose events
\* channel is at capacity, the client's channel is left as it is and nothing
\* panics; an open client with room gets the frame appended; a Send touches
\* no other client, no other pending delivery and not the publisher; run
\* starts a delivery for every client of the map, whatever the state of the
\* clients' channels; and a Broadcast call returns without a panic.
C8_DropForFullOnly ==
    [][/\ \A d \in deliveries :
            Delivers(d) =>
               /\ deliveries' = deliveries \ {d}
               /\ \A k \in 1..Len(objs) : k # d[1] => objs'[k] = objs[k]
               /\ <<bEvents', broadcasts', clients'>> = <<bEvents, broadcasts, clients>>
               /\ (~objs[d[1]].closed /\ Len(objs[d[1]].events) >= ClientQueueCap)
                      => objs'[d[1]] = objs[d[1]] /\ ~panicked'
               /\ (~objs[d[1]].closed /\ Len(objs[d[1]].events) < ClientQueueCap)
                      => /\ objs'[d[1]].events = Append(objs[d[1]].events, d[2])
                         /\ ~panicked'
       /\ (Len(bEvents') < Len(bEvents) /\ Head(bEvents).data = "json")
            => \A c \in Registered : <<c, Head(bEvents).n>> \in deliveries'
       /\ broadcasts' # broadcasts => ~panicked']_vars

\* Two registered, open clients: the events channel of one is at capacity
\* and a frame that was dropped for it is on the channel of the other.
C8_Witness ==
    /\ ~panicked
    /\ \E c1 \in Registered, c2 \in Registered, n \in 1..MaxEvents :
        /\ c1 # c2
        /\ ~objs[c1].closed /\ ~objs[c2].closed
        /\ Len(objs[c1].events) = ClientQueueCap
        /\ enqueuedMax[c1] > 0 /\ enqueuedMax[c1] < n
        /\ <<c1, n>> \notin deliveries
        /\ n \in Queued(objs[c2])

\* C9: in every state of the broker in which the process has not panicked, a
\* call of Broadcast can return at once, without a step of the broker loop,
\* of a subscriber or of a delivery goroutine.
C9_BroadcastNeverBlocks ==
    (~panicked /\ broadcasts < MaxEvents) => ENABLED (\E data \in EventData : Broadcast(data))

\* The broker loop has returned after the stop signal, the broker's events
\* channel is at capacity, and a Broadcast call made after the last event on
\* the channel has returned: its event was discarded.
C9_Witness ==
    /\ ~panicked /\ stop /\ ~running
    /\ Len(bEvents) = BrokerQueueCap
    /\ broadcasts > bEvents[Len(bEvents)].n

\* ------------------------------------------- further properties of the run

\* C11: a backend call made after the deadline of the run has passed is
\* treated as failed: no step result is accepted in that transition, and a
\* run that ends in it ends with the deadline error in its cause chain.
C11_DeadlineIsFatal ==
    [][(expired /\ calls' # calls)
          => /\ executionHistory' = executionHistory
             /\ (pc' = "done" => "context deadline exceeded" \in Msgs(ret'.err))]_vars

\* The events of the execute phase under way (or the last one): those
\* published after the last Executing event of the run.
ExecutePhase ==
    LET marks == { k \in 1..Len(published) : published[k].id = "execute" }
    IN  IF marks = {} THEN <<>>
        ELSE LET m == CHOOSE k \in marks : \A j \in marks : j <= k
             IN  SubSeq(published, m + 1, Len(published))

IsStepStart(e) == e.id = "step_start"

\* C12: within one execute phase the steps start in plan order, each at most
\* once; a step starts only after the step before it has completed; and a
\* step that failed has been recovered before any later step starts.
C12_StepsInPlanOrder ==
    LET phase == ExecutePhase
        starts == SelectSeq(phase, IsStepStart)
    IN  /\ Len(starts) <= Len(plan.Steps)
        /\ \A k \in 1..Len(starts) : starts[k].n = k
        /\ \A k \in 1..Len(phase) :
              (IsStepStart(phase[k]) /\ phase[k].n > 1)
                 => \E j \in 1..(k - 1) :
                       /\ phase[j].id = "step_complete"
                       /\ phase[j].n = phase[k].n - 1
        /\ \A k \in 1..Len(phase) : \A m \in (k + 1)..Len(phase) :
              (phase[k].id = "step_error" /\ IsStepStart(phase[m]))
                 => \E j \in (k + 1)..(m - 1) :
                       /\ phase[j].id = "step_recovered"
                       /\ phase[j].n = phase[k].n

\* A run that ended with an answer after two steps, the first of which failed
\* and was recovered.
C12_Witness ==
    /\ pc = "done"
    /\ ~IsError(ret.err)
    /\ Len(SelectSeq(ExecutePhase, IsStepStart)) = 2
    /\ \E k \in 1..Len(ExecutePhase) :
          ExecutePhase[k].id = "step_recovered" /\ ExecutePhase[k].n = 1

\* ---------------------------------------- further properties of the broker
\* An ended Subscribe call whose deferred function and watcher both still
\* have their unregister message to send, while the channel is full: the
\* call cannot return before the loop takes a message.
BlockedOnUnregister(c) ==
    /\ ~running
    /\ objs[c].sub = "ended"
    /\ objs[c].unreg = 2
    /\ Len(bUnregister) >= UnregisterCap

\* C13: once the loop has processed the stop signal the subscriber set is
\* empty and every client it held is closed, and a Subscribe call made from
\* then on is neither registered nor left blocked (the loop has returned, so
\* a call blocked on a channel of the broker stays blocked).
C13_ShutdownIsFinal ==
    ~running =>
        /\ Registered = {}
        /\ \A c \in 1..Len(objs) :
              objs[c].afterShutdown => ~BlockedOnUnregister(c)

\* The broker with its goroutines scheduled: the loop takes a case that stays
\* ready, an ended Subscribe call gets to send on unregister when the channel
\* has room, and a delivery goroutine gets to call Send. The calls made on
\* the broker from outside (Subscribe, the end of a request, Broadcast, Close)
\* happen or not.
FairBroker ==
    /\ WF_vars(runRegister)
    /\ WF_vars(runUnregister)
    /\ WF_vars(runEvent)
    /\ WF_vars(runStop)
    /\ WF_vars(\E c \in 1..Len(objs) : SubscribeUnregister(c))
    /\ WF_vars(\E d \in deliveries : Deliver(d))

SpecBrokerFair == InitBroker /\ [][NextBroker]_vars /\ FairBroker

\* The Subscribe call of client object c has ended and is unsubscribed: both
\* its unregister messages are sent and the map does not hold the object.
Unsubscribed(c) ==
    /\ objs[c].unreg = 0
    /\ clients[objs[c].ID] # c

\* C14: while the broker is up, from some point on every subscription that
\* has ended (by its deadline or by the peer) has returned and its client is
\* out of the subscriber set for good.
C14_EndsUnsubscribed ==
    <>[](\/ stop
         \/ panicked
         \/ \A c \in 1..Len(objs) : objs[c].sub = "ended" => Unsubscribed(c))

\* ------------------------------------------------------- concurrent runs
\* A run of an agent of an application with the tools feature off, next to
\* other users of the shared tool manager.
InitRuns ==
    /\ registry = ToolsDisabled
    /\ NewRun
    /\ NewBroker
    /\ NoCall
    /\ NewRegistries

NextRuns == NextAgent \/ executeToolStepOfOtherRun

SpecRuns == InitRuns /\ [][NextRuns]_vars

\* What this run's think phase does with a plan of the model, as far as the
\* registry decides it.
VerdictOn(pl, tools) ==
    AgentValidatePlan(pl, query, agent.toolManager, agent.ragEngine, tools)

\* C15: while this run waits for the model's answer in its think phase, a
\* step of another run leaves the verdict of this run's validation unchanged,
\* whatever plan the model answers with.
C15_RunsIndependent ==
    [][(pc = "think" /\ <<pc, calls, published, ret>>' = <<pc, calls, published, ret>>)
          => \A pl \in Plans : VerdictOn(pl, registry'.tools) = VerdictOn(pl, registry.tools)]_vars

\* ------------------------------------------------------- single functions
\* The words queries are made of: two of more than two letters, one short.
TxtIt == <<"i", "t">>
Vocabulary == {TxtSum, TxtCat, TxtIt}

\* The longest query, in words.
MaxWords == 4

\* The text of a list of words: the words with one space between them.
RECURSIVE JoinWords(_)
JoinWords(ws) ==
    IF ws = <<>> THEN TxtEmpty
    ELSE IF Len(ws) = 1 THEN ws[1]
    ELSE ws[1] \o <<Space>> \o JoinWords(Tail(ws))

\* The queries over the vocabulary, the empty query included.
Queries ==
    { JoinWords(ws) : ws \in UNION { [1..n -> Vocabulary] : n \in 0..MaxWords } }

\* The thoughts of the plans the gate is asked about.
GateThoughts == {TxtEmpty, TxtSumUp, TxtCat, TxtX}

\* The calls of isPlanRelevant.
RelevanceCalls ==
    { [fn |-> "isPlanRelevant", plan |-> [Thought |-> th, Steps |-> <<>>], query |-> q] :
        th \in GateThoughts, q \in Queries }

\* The steps the validator is asked about: those of a model answer, and steps
\* without an action, without parameters, or short of one parameter.
ValidationSteps ==
    Steps
    \cup { [Action |-> "", Parameters |-> [prompt |-> PStr(TxtSum)], ShouldContinue |-> FALSE],
           [Action |-> "reason", Parameters |-> NilMap, ShouldContinue |-> FALSE],
           [Action |-> "search_tool", Parameters |-> [tool_name |-> PStr(ToolCalc)],
            ShouldContinue |-> FALSE],
           [Action |-> "search_tool", Parameters |-> [input |-> PStr(TxtSum)],
            ShouldContinue |-> FALSE],
           [Action |-> "rag_search", Parameters |-> [top_k |-> PNum], ShouldContinue |-> FALSE] }

ValidationPlans ==
    { [Thought |-> th, Steps |-> ss] :
        th \in {TxtEmpty, TxtSumUp},
        ss \in {<<>>} \cup { <<s>> : s \in ValidationSteps }
                      \cup { <<s, t>> : s \in ValidationSteps, t \in ValidationSteps } }

\* The calls of validatePlan (plan.go).
ValidationCalls == { [fn |-> "validatePlan", plan |-> pl] : pl \in ValidationPlans }

\* A thought that quotes a fence marker.
TxtCode == <<"x">> \o TxtFence

\* The plan documents the parser is given: with or without a thought, with a
\* thought that quotes a fence marker, with no step or one step of any kind.
ParseDocs ==
    { [Thought |-> th, Steps |-> ss] :
        th \in {TxtEmpty, TxtSumUp, TxtCode},
        ss \in {<<>>} \cup { <<s>> : s \in Steps } }

\* The ways a document is handed to the parser: alone, inside a fence with
\* the json tag, inside a fence without a tag between two lines of prose, and
\* after a line of prose without any fence.
Forms == {"alone", "tagged", "untagged", "prose_doc"}

Response(pl, form) ==
    CASE form = "alone" -> <<Doc(pl)>>
      [] form = "tagged" -> <<FenceJSON, NL, Doc(pl), NL, Fence>>
      [] form = "untagged" -> <<Prose, NL, Fence, NL, Doc(pl), NL, Fence, NL, Prose>>
      [] form = "prose_doc" -> <<Prose, NL, Doc(pl)>>
      [] form = "prose" -> <<Prose>>
      [] OTHER -> <<>>

\* The calls of ParseExecutionPlan: a document in each form, prose only, and
\* the empty text.
ParseCalls ==
    { [fn |-> "ParseExecutionPlan", doc |-> pl, form |-> f] : pl \in ParseDocs, f \in Forms }
    \cup { [fn |-> "ParseExecutionPlan", doc |-> NoPlan, form |-> f] : f \in {"prose", "empty"} }

\* The calls made on single functions.
FunctionCalls == RelevanceCalls \cup ValidationCalls \cup ParseCalls

InitFunctions ==
    /\ IdleAgent
    /\ NewBroker
    /\ fnArgs \in FunctionCalls
    /\ fnOut = NotCalled
    /\ NewRegistries

\* Agent.isPlanRelevant is called on the plan and the query.
Call_isPlanRelevant ==
    /\ fnArgs.fn = "isPlanRelevant"
    /\ fnOut = NotCalled
    /\ fnOut' = [fn |-> "isPlanRelevant", v |-> isPlanRelevant(fnArgs.plan, fnArgs.query)]
    /\ UNCHANGED <<fnArgs, agentVars, brokerVars, regVars>>

\* validatePlan (plan.go) is called on the plan.
Call_validatePlan ==
    /\ fnArgs.fn = "validatePlan"
    /\ fnOut = NotCalled
    /\ fnOut' = [fn |-> "validatePlan", err |-> validatePlan(fnArgs.plan)]
    /\ UNCHANGED <<fnArgs, agentVars, brokerVars, regVars>>

\* ParseExecutionPlan is called on the response.
Call_ParseExecutionPlan ==
    /\ fnArgs.fn = "ParseExecutionPlan"
    /\ fnOut = NotCalled
    /\ fnOut' = [fn |-> "ParseExecutionPlan",
                 res |-> ParseExecutionPlan(Response(fnArgs.doc, fnArgs.form))]
    /\ UNCHANGED <<fnArgs, agentVars, brokerVars, regVars>>

NextFunctions ==
    \/ Call_isPlanRelevant
    \/ Call_validatePlan
    \/ Call_ParseExecutionPlan

SpecFunctions == InitFunctions /\ [][NextFunctions]_vars

\* The query words of more than two characters, by their place in the query.
SignificantWords(q) ==
    { i \in 1..Len(Fields(ToLower(q))) : Len(Fields(ToLower(q))[i]) > 2 }

\* Those of them that occur in the lowercased thought.
SignificantMatches(pl, q) ==
    { i \in SignificantWords(q) : Contains(ToLower(pl.Thought), Fields(ToLower(q))[i]) }

\* C16: the gate accepts exactly when ten times the number of significant
\* query words found in the thought is at least three times the number of
\* significant query words.
C16_RelevanceRatio ==
    fnOut.fn = "isPlanRelevant"
        => (fnOut.v <=> 10 * Cardinality(SignificantMatches(fnArgs.plan, fnArgs.query))
                          >= 3 * Cardinality(SignificantWords(fnArgs.query)))

\* C17: a run fails with the relevance gate's validation error only after
\* the model has been prompted as many times as the retry ceiling allows.
C17_RelevanceFailureRetried ==
    (pc = "done" /\ "plan not relevant" \in Msgs(ret.err)) => ThinkAttempts >= RetryCeiling

\* The three kinds of step and the parameters each of them requires, in the
\* order the validator looks for them.
KnownActions == {"search_tool", "rag_search", "reason"}

RequiredParameters(action) ==
    CASE action = "search_tool" -> <<"tool_name", "input">>
      [] action = "rag_search" -> <<"query">>
      [] action = "reason" -> <<"prompt">>
      [] OTHER -> <<>>

\* The required parameters a step of a known kind does not carry.
MissingParameters(step) ==
    { k \in 1..Len(RequiredParameters(step.Action)) :
        RequiredParameters(step.Action)[k] \notin DOMAIN step.Parameters }

LacksParameter(step) == step.Action \in KnownActions /\ MissingParameters(step) # {}

Offends(step) == step.Action \notin KnownActions \/ LacksParameter(step)

\* The first step of the plan that offends.
FirstOffending(pl) ==
    CHOOSE i \in 1..Len(pl.Steps) :
        Offends(pl.Steps[i]) /\ \A j \in 1..(i - 1) : ~Offends(pl.Steps[j])

\* The error message that names a missing parameter of the step (for a step
\* without a parameter map, the message that says so).
NamesField(msg, step, field) ==
    \/ step.Parameters = NilMap /\ msg = "step lacks parameters"
    \/ field = "tool_name" /\ msg = "tool step lacks tool_name"
    \/ field = "input" /\ msg = "tool step lacks input"
    \/ field = "query" /\ msg = "rag step lacks query"
    \/ field = "prompt" /\ msg = "reason step lacks prompt"

\* C18: the validator accepts every plan with a thought, a step, known
\* actions and all required parameters; a plan with a thought in which some
\* step lacks a required parameter is rejected, and when the first offending
\* step is one that lacks a parameter the error carries the index of that
\* step and names its first missing parameter.
C18_ValidatorNamesStep ==
    fnOut.fn = "validatePlan" =>
        LET pl == fnArgs.plan
            err == fnOut.err
        IN  /\ (/\ pl.Thought # TxtEmpty
                /\ Len(pl.Steps) > 0
                /\ \A i \in 1..Len(pl.Steps) : ~Offends(pl.Steps[i]))
                  => ~IsError(err)
            /\ (pl.Thought # TxtEmpty /\ \E i \in 1..Len(pl.Steps) : LacksParameter(pl.Steps[i]))
                  => /\ IsError(err)
                     /\ LET first == pl.Steps[FirstOffending(pl)]
                            field == RequiredParameters(first.Action)[
                                        CHOOSE k \in MissingParameters(first) :
                                            \A m \in MissingParameters(first) : k <= m]
                        IN  LacksParameter(first)
                               => /\ err[1].step = FirstOffending(pl)
                                  /\ NamesField(err[1].msg, first, field)

\* The text holds a fence marker somewhere.
HoldsFence(text) == \E i \in 1..Len(text) : Matches(text[i], "fence")

\* C19: a document inside a tagged fence, or inside an untagged fence between
\* prose, parses to the outcome of the document alone (the same plan or the
\* same error); a text that does not decode and holds no fence marker fails
\* with the extraction error.
C19_FenceTolerant ==
    fnOut.fn = "ParseExecutionPlan" =>
        LET response == Response(fnArgs.doc, fnArgs.form)
        IN  /\ fnArgs.form \in {"tagged", "untagged"}
                  => fnOut.res = ParseExecutionPlan(Response(fnArgs.doc, "alone"))
            /\ (~Unmarshal(response).ok /\ ~HoldsFence(response))
                  => Msgs(fnOut.res.err) = {"cannot extract JSON"}

\* C20: a run that has returned an error has returned the empty answer,
\* whatever its steps had produced, and the steps it had completed are to be
\* seen in the events it published.
C20_AnswerOrError ==
    (pc = "done" /\ IsError(ret.err))
        => /\ ret.answer = TxtEmpty
           /\ \A i \in 1..Len(executionHistory) :
                 \E k \in 1..Len(ExecutePhase) :
                    ExecutePhase[k].id = "step_complete" /\ ExecutePhase[k].n = i

\* A run that failed after one of its steps had produced a result.
C20_Witness ==
    /\ pc = "done"
    /\ IsError(ret.err)
    /\ executionHistory # <<>>
    /\ result # TxtEmpty
    /\ ret.answer = TxtEmpty

\* ------------------------------------------------ the registries on their own
\* The tool and model registries of an application, called from outside.
InitRegistries == IdleAgent /\ NewBroker /\ NoCall /\ NewRegistries

SpecRegistries == InitRegistries /\ [][NextRegistries]_vars

\* C21: a tool object whose Register succeeded is listed under its name and
\* is the instance of its name from then on; an ExecuteTool of its name runs
\* that object and, when the object succeeds, returns its result; an
\* ExecuteTool of a name with no instance and no factory runs no tool and
\* returns the not-found error.
C21_RegisteredToolRuns ==
    /\ \A t \in regLog.tools :
          /\ t.name \in ToolRegistry_ListTools(toolReg)
          /\ toolReg.tools[t.name] = t
    /\ regLog.last.op = "ExecuteTool" =>
          /\ \A t \in regLog.tools :
                t.name = regLog.last.name
                   => /\ regLog.last.ran = t
                      /\ regLog.last.toolOk
                            => /\ ~IsError(regLog.last.err)
                               /\ regLog.last.result = ToolResult(t, regLog.last.input)
          /\ ~regLog.last.known
                => /\ regLog.last.ran = NoTool
                   /\ "tool factory not found" \in Msgs(regLog.last.err)

\* A registered tool object has been executed under a name that has a
\* factory too.
C21_Witness ==
    /\ regLog.last.op = "ExecuteTool"
    /\ regLog.last.toolOk
    /\ regLog.last.ran \in regLog.tools
    /\ regLog.last.name \in toolReg.factories

C23_CountFollowsLoop ==
    /\ GetClientsCount(clients) = 0
    /\ [](GetClientsCount(clients) = Cardinality(GetClientIDs(clients)))
    /\ [][~panicked' =>
            GetClientIDs(clients') =
               IF running /\ bRegister' # bRegister /\ Len(bRegister') < Len(bRegister)
                   THEN GetClientIDs(clients) \cup {objs[Head(bRegister)].ID}
               ELSE IF running /\ Len(bUnregister') < Len(bUnregister)
                   THEN GetClientIDs(clients) \ {Head(bUnregister)}
               ELSE IF running /\ ~running'
                   THEN {}
               ELSE GetClientIDs(clients)]_vars

\* Two subscriptions under one id have both been registered and an event has
\* been broadcast: one subscriber is counted.
C23_Witness ==
    /\ Len(objs) = 2
    /\ objs[1].ID = objs[2].ID
    /\ bRegister = <<>>
    /\ running
    /\ broadcasts > 0
    /\ GetClientsCount(clients) = 1
    /\ objs[1].sub = "live" /\ objs[2].sub = "live"

\* The run has published an event whose status is Error or Completed.
TerminalPublished ==
    \E k \in 1..Len(published) : published[k].status \in {"error", "completed"}

\* C24: once a run has published an event with status Error or Completed, it
\* publishes no further event (the start event of a step included, so that
\* no further step is executed).
C24_TerminalStatuses == [][TerminalPublished => published' = published]_vars

\* The Execute phase of a loop pass ends with continue = true.
ExecuteEndsContinuing == pc \in {"step", "recover"} /\ pc' = "loop"

\* C25: when the Execute phase of a loop pass ends with continue = true, the
\* step that ended it is the last of the plan and has continue = true, and
\* its result is the query the next Think phase gives to the model; the
\* iteration counter grows by one at the head of every loop pass and at no
\* other step.
C25_ResultFeedsNextThink ==
    [][/\ ExecuteEndsContinuing =>
            /\ stepIdx = Len(plan.Steps)
            /\ plan.Steps[stepIdx].ShouldContinue
            /\ result' = Last(executionHistory')
            /\ currentQuery' = result'
       /\ pc = "loop" => currentQuery' = currentQuery
       /\ pc = "think" /\ pc' # "think" => calls'[1].arg = currentQuery
       /\ iteration' = IF pc = "loop" /\ pc' = "think" THEN iteration + 1 ELSE iteration]_vars

\* The second loop pass is in its Execute phase, its plan made for a query
\* that is the result of the first pass and not the goal.
C25_Witness ==
    /\ iteration = 2
    /\ pc = "step"
    /\ currentQuery # query
    /\ calls[1].phase = "think"
    /\ calls[1].arg = currentQuery

\* The validation of think accepts a plan (the retry path does not validate).
ThinkAccepts == pc = "think" /\ pc' = "step"

\* C26: in every loop pass the plan that passes the gate of think has a
\* thought that is relevant to the goal Execute was called with.
C26_GateComparesGoal == [][ThinkAccepts => isPlanRelevant(plan', query)]_vars

\* s is an initial part of t.
IsPrefix(s, t) == Len(s) <= Len(t) /\ SubSeq(t, 1, Len(s)) = s

\* C27: until Execute returns, the execution history only grows, over all the
\* loop passes of the run: a step that fails appends nothing before its
\* recovery, a step that completes appends one entry, and no other step of
\* the run changes the history.
C27_HistoryAppendOnly ==
    [][/\ IsPrefix(executionHistory, executionHistory')
       /\ Len(executionHistory') <= Len(executionHistory) + 1
       /\ pc' = "recover" => executionHistory' = executionHistory
       /\ Len(executionHistory') > Len(executionHistory)
             => pc \in {"step", "recover"} /\ Last(executionHistory') = result']_vars

\* The strategy the action of a step calls for.
StrategyForAction(action) ==
    CASE action = "search_tool" -> "tool"
      [] action = "rag_search"  -> "rag"
      [] action = "reason"      -> "reason"
      [] OTHER -> "default"

\* C28: whenever a failed step is about to be recovered, the strategy that
\* recoverFromError picks for it is the strategy of the step's action,
\* whatever the error is.
C28_StrategyByAction ==
    pc = "recover" => strategyOf(CurrentStep, stepErr) = StrategyForAction(CurrentStep.Action)

\* The backend calls the step of the behaviour makes.
NewCalls == SubSeq(calls', Len(calls) + 1, Len(calls'))

\* A failed step is recovered by the strategy.
Recovers(strategy) ==
    pc = "recover" /\ pc' # "recover" /\ strategyOf(CurrentStep, stepErr) = strategy

\* The inputs the claim derives for a tool step: the original, and with a
\* history the two variants of it.
DerivedInputs(input, history) ==
    IF history = <<>> THEN <<input>>
    ELSE <<input, input \o SuffixPrev, input \o SuffixHist>>

\* C29: the tool strategy calls the tool with the derived inputs in their
\* order, the original first; every call but the last one made has failed;
\* when the last call made succeeds its result is the result of the step and
\* no further call is made, and the recovery fails, ending the run with an
\* error, exactly when a call has been made for every input and all failed.
C29_ToolRecoveryInOrder ==
    [][Recovers("tool") =>
        LET alts == DerivedInputs(CurrentStep.Parameters["input"].v, executionHistory)
        IN  /\ Len(NewCalls) \in 1..Len(alts)
            /\ \A j \in 1..Len(NewCalls) :
                  /\ NewCalls[j].backend = "tool"
                  /\ NewCalls[j].arg = alts[j]
                  /\ j < Len(NewCalls) => ~NewCalls[j].ok
            /\ IF Last(NewCalls).ok
               THEN /\ result' = Last(NewCalls).out
                    /\ Last(executionHistory') = result'
                    /\ ~IsError(ret'.err)
               ELSE /\ Len(NewCalls) = Len(alts)
                    /\ pc' = "done"
                    /\ IsError(ret'.err)]_vars

\* A tool step that failed after an earlier step of the plan is recovered by
\* the second input: the call with the original input failed, the call with
\* the first variant gave the step's result.
C29_Witness ==
    /\ Len(executionHistory) = 2
    /\ Len(calls) >= 2
    /\ calls[Len(calls) - 1].phase = "recover"
    /\ calls[Len(calls) - 1].backend = "tool"
    /\ ~calls[Len(calls) - 1].ok
    /\ Last(calls).phase = "recover"
    /\ Last(calls).ok
    /\ Last(calls).arg = calls[Len(calls) - 1].arg \o SuffixPrev
    /\ result = Last(calls).out

\* A search of the recovery that found something.
Found(call) == call.ok /\ call.out # TxtEmpty

\* C30: the retrieval strategy searches with the alternative queries in
\* their order; every search but the last one made has failed or found
\* nothing; when the last search made has found something, the formatted
\* hits are the result of the step, and the recovery fails, ending the run
\* with an error, exactly when every alternative has been searched and none
\* has found anything.
C30_RetrievalRecoveryNeedsHits ==
    [][Recovers("rag") =>
        LET alts == generateAlternativeQueries(CurrentStep.Parameters["query"].v,
                                               executionHistory)
        IN  /\ alts[1] = CurrentStep.Parameters["query"].v
            /\ Len(NewCalls) \in 1..Len(alts)
            /\ \A j \in 1..Len(NewCalls) :
                  /\ NewCalls[j].backend = "rag"
                  /\ NewCalls[j].arg = alts[j]
                  /\ j < Len(NewCalls) => ~Found(NewCalls[j])
            /\ IF Found(Last(NewCalls))
               THEN /\ result' = formatRAGResults(Last(NewCalls).out)
                    /\ result' # TxtNone
                    /\ ~IsError(ret'.err)
               ELSE /\ Len(NewCalls) = Len(alts)
                    /\ pc' = "done"
                    /\ IsError(ret'.err)]_vars

\* A retrieval step that failed after an earlier step of the plan is
\* recovered by its second query: the search with the original query
\* returned an empty result set without error, the next one found a hit.
C30_Witness ==
    /\ Len(executionHistory) = 2
    /\ Len(calls) >= 2
    /\ calls[Len(calls) - 1].phase = "recover"
    /\ calls[Len(calls) - 1].backend = "rag"
    /\ calls[Len(calls) - 1].ok
    /\ calls[Len(calls) - 1].out = TxtEmpty
    /\ Last(calls).phase = "recover"
    /\ Found(Last(calls))
    /\ result = formatRAGResults(Last(calls).out)

\* The backend a recovery strategy calls.
BackendOf(strategy) ==
    CASE strategy = "tool" -> "tool"
      [] strategy = "rag"  -> "rag"
      [] OTHER -> "model"

\* The events the step of the behaviour publishes.
NewEvents == SubSeq(published', Len(published) + 1, Len(published'))

\* C31: a recovery starts only for a step that has just failed; it is the
\* work of one strategy (all its calls go to the backend of the strategy the
\* step's failure selects, at most one per alternative); it either gives the
\* step its result or, when it fails, ends the run in that same transition
\* with an error and the Error event, with no call of another strategy.
C31_RecoveryNotNested ==
    [][/\ (pc' = "recover" /\ pc # "recover")
            => pc = "step" /\ Last(published') = Ev("step_error", stepIdx, "error")
       /\ (pc = "recover" /\ pc' # "recover")
            => /\ Len(NewCalls) <= recoveryCalls(CurrentStep, stepErr, executionHistory)
               /\ \A j \in 1..Len(NewCalls) :
                     /\ NewCalls[j].phase = "recover"
                     /\ NewCalls[j].backend = BackendOf(strategyOf(CurrentStep, stepErr))
               /\ \/ /\ NewEvents[1] = Ev("step_recovered", stepIdx, "executing")
                     /\ executionHistory' = Append(executionHistory, result')
                     /\ ~IsError(ret'.err)
                  \/ /\ NewEvents = <<Ev("error", 0, "error")>>
                     /\ pc' = "done"
                     /\ IsError(ret'.err)
                     /\ executionHistory' = executionHistory]_vars

\* A run ended by a tool recovery that tried all three inputs in vain.
C31_Witness ==
    /\ pc = "done"
    /\ IsError(ret.err)
    /\ Len(calls) >= 3
    /\ \A k \in (Len(calls) - 2)..Len(calls) :
          calls[k].phase = "recover" /\ calls[k].backend = "tool" /\ ~calls[k].ok
    /\ Last(published) = Ev("error", 0, "error")

\* The positions of the events of a run that satisfy a condition on the
\* identifier, the number and the status.
EventsAt(id, n) == { k \in 1..Len(published) : published[k].id = id /\ published[k].n = n }
WithStatus(status, n) ==
    { k \in 1..Len(published) : published[k].status = status /\ published[k].n = n }

\* The position of the Executing event that opens the Execute phase an event
\* belongs to (0 when there is none before the event).
RECURSIVE PhaseStart(_)
PhaseStart(k) ==
    IF k = 0 THEN 0
    ELSE IF published[k].id = "execute" THEN k
    ELSE PhaseStart(k - 1)

StepEvents == {"step_start", "step_error", "step_recovered", "step_complete"}

\* C32: in a run that has returned, the first event has status Thinking;
\* each loop pass has one Thinking event of its Think phase, followed by one
\* Planning event, and after the Planning event only events with status
\* Executing until the next pass or the final event; in an Execute phase the
\* completion event of a step comes after its start event, and every event
\* of a later step after the completion event of the step before it.
C32_PhaseOrder ==
    (pc = "done" /\ published # <<>>) =>
        /\ published[1].status = "thinking"
        /\ \A n \in 1..iteration :
              /\ Cardinality(EventsAt("think", n)) = 1
              /\ Cardinality(WithStatus("planning", n)) = 1
              /\ \A k \in EventsAt("think", n) : \A l \in WithStatus("planning", n) : k < l
        /\ \A k \in 1..(Len(published) - 1) :
              /\ published[k].id \in StepEvents \cup {"execute"}
                    => published[k].status = "executing"
              /\ published[k].id = "step_complete"
                    => \E l \in PhaseStart(k)..(k - 1) :
                          published[l] = Ev("step_start", published[k].n, "executing")
              /\ (published[k].id \in StepEvents /\ published[k].n > 1)
                    => \E l \in PhaseStart(k)..(k - 1) :
                          published[l] = Ev("step_complete", published[k].n - 1, "executing")

\* The broker loop processes an unregister message, the message an ended
\* subscription sends.
UnregisterProcessed == Len(bUnregister') < Len(bUnregister)

\* C33: when the loop processes the unregister message of an ended
\* subscription, no run changes, and every subscriber whose Subscribe call is
\* still live keeps its registration and its client (queue and open
\* channels) as they were.
C33_EndTouchesOnlyItsSubscriber ==
    [][UnregisterProcessed =>
          /\ UNCHANGED agentVars
          /\ \A d \in 1..Len(objs) :
                objs[d].sub = "live" =>
                    /\ objs'[d] = objs[d]
                    /\ (d \in Registered) = (d \in Registered')]_vars

\* C34: no step of a plan the engine has accepted, in its execution or in
\* its recovery, fails on the type of a parameter (the type assertion of a
\* parameter that is not a string panics).
C34_NoTypeFailure == pc # "panic"

\* C35: a goroutine of the broker calls Client.Send only on a client whose
\* channels have not been closed.
C35_NoSendAfterClose ==
    [][\A d \in deliveries : Delivers(d) => ~objs[d[1]].closed]_vars

\* The loop has taken the register message of a client.
RegisterProcessed(c) == \A k \in 1..Len(bRegister) : bRegister[k] # c

\* C36: while the broker runs, every client whose register message the loop
\* has taken is in the subscriber set and open as long as its Subscribe call
\* is live, and no client is open without being in the set.
C36_RemovedOnlyByItself ==
    \A c \in 1..Len(objs) :
        (running /\ RegisterProcessed(c)) =>
            /\ objs[c].sub = "live" => (c \in Registered /\ ~objs[c].closed)
            /\ ~objs[c].closed => c \in Registered

\* The loop closes a client in the step of the behaviour.
Closes(c) == objs'[c].closed /\ ~objs[c].closed

\* C37: every client of the subscriber set is open, the loop closes only
\* clients of the set and removes them from the set in the same step, and a
\* closed client stays closed: whatever the order of the two unregister
\* messages of an ended Subscribe call and the shutdown signal, no client is
\* closed a second time (closing a closed channel panics, and the only
\* panics of the broker are those of a Send).
C37_ClosedAtMostOnce ==
    /\ [](\A c \in Registered : ~objs[c].closed)
    /\ [][/\ \A c \in 1..Len(objs) :
               /\ Closes(c) => (c \in Registered /\ c \notin Registered')
               /\ objs[c].closed => objs'[c].closed
          /\ (panicked' /\ ~panicked) => deliveries' # deliveries]_vars

\* An ended Subscribe call has had both its unregister messages processed,
\* the first of which closed its client, and the broker has then shut down.
C37_Witness ==
    /\ ~panicked
    /\ ~running
    /\ bUnregister = <<>>
    /\ \E c \in 1..Len(objs) :
          /\ objs[c].sub = "ended"
          /\ objs[c].unreg = 0
          /\ objs[c].closed
          /\ RegisterProcessed(c)

\* The event with number n waits in the broker's input queue.
InInputQueue(n) == \E k \in 1..Len(bEvents) : bEvents[k].n = n

\* The loop takes an event from its input queue.
EventProcessed == Len(bEvents') < Len(bEvents)

\* C38: an event the loop takes from its input queue is offered to every
\* subscriber registered at that moment (a Send is started for each); a Send
\* to an open client whose queue has room enqueues the frame; and, unless
\* the broker shuts down, every event accepted into the input queue is
\* eventually taken by the loop and every Send that was started is made.
C38_BroadcastReachesSubscribers ==
    /\ [][EventProcessed =>
             \A c \in Registered : <<c, Head(bEvents).n>> \in deliveries']_vars
    /\ [][\A d \in deliveries :
             (Delivers(d) /\ ~objs[d[1]].closed /\ Len(objs[d[1]].events) < ClientQueueCap)
                 => objs'[d[1]].events = Append(objs[d[1]].events, d[2])]_vars
    /\ \A n \in 1..MaxEvents :
          InInputQueue(n) ~> (~InInputQueue(n) \/ ~running \/ panicked)
    /\ \A c \in 1..MaxClients : \A n \in 1..MaxEvents :
          (<<c, n>> \in deliveries) ~> (<<c, n>> \notin deliveries \/ panicked)

\* ------------------------------------------------------------- termination
\* Every backend call returns: each step of the run that can be taken is
\* taken. The deadline may pass or not.
FairRun ==
    /\ WF_vars(Execute)
    /\ WF_vars(thinkExecuteLoop)
    /\ WF_vars(think)
    /\ WF_vars(thinkWithRetryInternal)
    /\ WF_vars(executeStepOfPlan)
    /\ WF_vars(recoverStepOfPlan)

SpecRunFair == Init /\ [][Next]_vars /\ FairRun

\* The most alternatives a recovery strategy has.
MaxAlternatives == 3

\* C39: every run of Execute eventually returns (an answer or an error); a
\* Think phase makes at most two model calls, the loop makes no more passes
\* than MaxIterations, a step index only grows within a pass, and a recovery
\* makes at most three backend calls.
C39_RunTerminates ==
    /\ <>(pc = "done")
    /\ [](ThinkAttempts <= 2 /\ iteration <= agent.MaxIterations)
    /\ [][/\ pc = "recover" => Len(NewCalls) <= MaxAlternatives
          /\ (pc \in {"step", "recover"} /\ pc' \in {"step", "recover"})
                => stepIdx' \in {stepIdx, stepIdx + 1}
          /\ (pc = "recover" /\ pc' = "step") => stepIdx' = stepIdx + 1]_vars

\* C40: under every interleaving of the calls, the factory of a name is
\* invoked at most once; a caller that has got its instance from CreateTool
\* and has yet to run it holds the instance the registry has for the name;
\* the instance of a name, once there, is never replaced; and a Register of
\* a name that has an instance is rejected and leaves the registry as it was.
C40_OneInstancePerName ==
    /\ [](\A n \in RegNames : regLog.made[n] <= 1)
    /\ [](\A c \in Callers :
             regLog.pending[c] # NoPending
                => toolReg.tools[regLog.pending[c].name] = regLog.pending[c].tool)
    /\ [][\A n \in RegNames :
             toolReg.tools[n] # NoTool => toolReg'.tools[n] = toolReg.tools[n]]_vars
    /\ [][(/\ regLog'.last.op = "ToolRegister"
           /\ toolReg.tools[regLog'.last.tool.name] # NoTool)
              => (IsError(regLog'.last.err) /\ toolReg' = toolReg)]_vars

\* Two callers are inside ExecuteTool for a name that was registered as a
\* factory only: the factory has been invoked once and both hold the
\* instance it made; the later caller found it in the registry.
C40_Witness ==
    /\ regLog.made["calculator"] = 1
    /\ \A c \in Callers : regLog.pending[c] = [name |-> "calculator",
                                               tool |-> FactoryTool("calculator")]
    /\ regLog.last.op = "CreateTool"
    /\ \A t \in regLog.tools : t.name # "calculator"

====
